---- MODULE Spec2Model ----
(***************************************************************************)
(* A model of WereSync's partition-table reconciliation                    *)
(* (src/src/weresync/daemon/device.py): the device queries of              *)
(* DeviceManager, the resize engines _transfer_gpt, _transfer_msdos and    *)
(* _transfer_lvm of DeviceCopier, transfer_partition_table and the         *)
(* validity check partitions_valid.                                        *)
(*                                                                         *)
(* A device is a record; its partitions are listed in the order parted     *)
(* prints them, which is the order of their start sectors.  Every external *)
(* tool is modelled by what the code reads from it; a tool failure is an   *)
(* attribute of the partition (it cannot be mounted, it stays busy, df has *)
(* no line for it) or a choice made when the tool runs.                    *)
(***************************************************************************)
EXTENDS Integers, Sequences, FiniteSets, TLC

\* ----------------------------------------------------------------- bounds
MaxSectors == 6     \* sectors the partitions of a device take together
MaxShrink == 2      \* largest source_size - target_size tried

\* ------------------------------------------------------ program constants
GptReserved == 34   \* trailing sectors _transfer_gpt never credits
Margin == 5         \* percent of the free space _transfer_msdos keeps

Alignments == {1, 2}    \* values of get_partition_alignment tried
LvmFree == {0, 1}       \* free sectors of the source volume group tried

None == "None"
MOUNT_POINT == "/mnt"

\* the file systems mkfs can make on the host, with "swap" and "ef"
SUPPORTED_FILESYSTEM_TYPES == {"swap", "ef", "ext4"}

\* texts a DeviceError carries in its str(), as sequences of characters:
\* the output of mount and of umount, and the message of _get_general_info
\* when df has no line for the partition
MountOutput == <<"m", "o", "u", "n", "t", ":">>

UmountOutput == <<"u", "m", "o", "u", "n", "t", ":">>

NoGrepLine == <<"N", "o", " ", "g", "r", "e", "p", " ", "l", "i", "n", "e">>

\* ---------------------------------------------------------------- helpers
\* math.floor(a / b) and math.ceil(a / b) for b > 0
Floor(a, b) == IF a >= 0 THEN a \div b ELSE -(((-a) + b - 1) \div b)

Ceil(a, b) == -Floor(-a, b)

RECURSIVE SumSeq(_)
SumSeq(s) == IF s = <<>> THEN 0 ELSE Head(s) + SumSeq(Tail(s))

Max(S) == CHOOSE x \in S : \A y \in S : y <= x

Range(s) == {s[k] : k \in 1..Len(s)}

\* Python's `word in text` for strings
In(word, text) ==
    \E k \in 1..(Len(text) - Len(word) + 1) :
        SubSeq(text, k, k + Len(word) - 1) = word

VARIABLES
    source,         \* DeviceCopier.source: the source device
    target,         \* DeviceCopier.target: the target device
    lvm_source,     \* DeviceCopier.lvm_source: a volume group, or None
    lvm_target,     \* DeviceCopier.lvm_target: a volume group, or None
    uuid_dict,      \* DeviceCopier.uuid_dict: <<>> is None, <<m>> the map m
    pc,             \* the statement the running operation is at
    entry,          \* the `difference` the engine was called with
    difference,     \* the engine's local `difference`
    idx,            \* position of the engine's loop in its partition list
    add_args,       \* _transfer_gpt: the -n arguments built so far
    part_size,      \* the local `part_size` of each iteration, by partition
    partition_listings,         \* _transfer_msdos: the parsed sfdisk dump
    move_start_back_by,         \* _transfer_msdos
    current_extended_partition, \* _transfer_msdos: index in the listings, 0: None
    result,         \* how the operation ended
    before,         \* the devices and uuid_dict when partitions_valid was called
    queries,        \* file-system and usage queries partitions_valid has made
    calls,          \* the results of the calls of partitions_valid so far
    log,            \* the tools run that wrote to a device or failed, in order
    call,           \* the operation the caller called, and its arguments
    mounted,        \* the partitions mounted when copy_files, or the
                    \* transfer of an msdos table, began
    source_loop,    \* CopyDrive: the loop device of the source image, or None
    target_loop,    \* CopyDrive: the loop device of the target image, or None
    loops,          \* the loop devices of the system that hold an image
    reported        \* the values the partition callback was called with

devices == <<source, target, lvm_source, lvm_target>>

locals == <<difference, idx, add_args, part_size, partition_listings,
            move_start_back_by, current_extended_partition>>

vars == <<source, target, lvm_source, lvm_target, uuid_dict, pc, entry,
          difference, idx, add_args, part_size, partition_listings,
          move_start_back_by, current_extended_partition, result, before,
          queries, calls, log, call, mounted, source_loop, target_loop,
          loops, reported>>

drive == <<source_loop, target_loop, loops>>

history == <<before, queries, calls, call, mounted>>

\* ------------------------------------------------------- device inspector
\* get_partitions with the numbers in the order of the table's slots
get_partitionsBySlot(dev) ==
    LET nums == {p.num : p \in {dev.parts[k] : k \in 1..Len(dev.parts)}}
    IN  [k \in 1..Len(dev.parts) |->
            CHOOSE n \in nums : Cardinality({m \in nums : m < n}) = k - 1]

\* get_partitions: the numbers in the order parted prints the partitions,
\* which is the order of their start sectors
get_partitions(dev) == [k \in 1..Len(dev.parts) |-> dev.parts[k].num]

Part(dev, i) == CHOOSE p \in Range(dev.parts) : p.num = i

\* get_partition_size: for gpt the code subtracts the start sector from the
\* end sector sgdisk prints; sfdisk and lvdisplay print the size
get_partition_size(dev, i) ==
    IF dev.table = "gpt" THEN Part(dev, i).end - Part(dev, i).start
    ELSE Part(dev, i).end - Part(dev, i).start + 1

\* get_empty_space: the total sectors minus an end sector.  For gpt the
\* end on the last line sgdisk prints, the line of the highest partition
\* number; for msdos the end that was read last from the lines of fdisk
\* taken bottom up, the one of the lowest partition number; for a volume
\* group its free sectors
get_empty_space(dev) ==
    LET nums == {p.num : p \in Range(dev.parts)}
    IN  IF dev.table = "lvm" THEN dev.free
        ELSE IF dev.table = "msdos"
        THEN dev.size - Part(dev, CHOOSE n \in nums : \A m \in nums : n <= m).end
        ELSE dev.size - Part(dev, Max(nums)).end

\* get_partition_used with the partition unmounted whoever mounted it
get_partition_usedUnmountAlways(dev, i) ==
    LET p == Part(dev, i) IN
    IF p.mnt = None /\ p.q = "nomount"
    THEN [raised |-> TRUE, text |-> MountOutput, used |-> 0, mnt |-> None,
          mounted_here |-> FALSE]
    ELSE IF p.q = "nodf"
    THEN [raised |-> TRUE, text |-> NoGrepLine, used |-> 0,
          mnt |-> None, mounted_here |-> p.mnt = None]
    ELSE [raised |-> FALSE, text |-> <<>>, used |-> p.used, mnt |-> None,
          mounted_here |-> p.mnt = None]

\* _get_general_info as get_partition_used uses it: the query mounts the
\* partition at MOUNT_POINT when it is not mounted, reads df's line and
\* unmounts what it mounted.  raised: a DeviceError left the call; text: a
\* word of its str(); used: df's Used column; mnt: the mount point after.
get_partition_used(dev, i) ==
    LET p == Part(dev, i) IN
    IF p.mnt = None /\ p.q = "nomount"
    THEN [raised |-> TRUE, text |-> MountOutput, used |-> 0, mnt |-> None,
          mounted_here |-> FALSE]
    ELSE IF p.mnt = None /\ p.q = "busy"
    THEN [raised |-> TRUE, text |-> UmountOutput, used |-> 0,
          mnt |-> MOUNT_POINT, mounted_here |-> TRUE]
    ELSE IF p.q = "nodf"
    THEN [raised |-> TRUE, text |-> NoGrepLine, used |-> 0,
          mnt |-> p.mnt, mounted_here |-> p.mnt = None]
    ELSE [raised |-> FALSE, text |-> <<>>, used |-> p.used, mnt |-> p.mnt,
          mounted_here |-> p.mnt = None]

\* get_partition_file_system: blkid's TYPE, or None for a type that is not
\* in SUPPORTED_FILESYSTEM_TYPES
get_partition_file_system(dev, i) ==
    IF Part(dev, i).fs \in SUPPORTED_FILESYSTEM_TYPES THEN Part(dev, i).fs
    ELSE None

\* ---------------------------------------------------------------- devices
RECURSIVE Lens(_)
\* the sequences of partition lengths, each of 2 sectors or more, that take
\* m sectors or fewer together
Lens(m) == {<<>>} \cup UNION {{<<l>> \o r : r \in Lens(m - l)} : l \in 2..m}

\* a partition of a device; u = -1: swap space, which cannot be mounted
Partition(num, start, len, u, type) ==
    [num |-> num, start |-> start, end |-> start + len - 1,
     used |-> IF u < 0 THEN 0 ELSE u, q |-> IF u < 0 THEN "nomount" ELSE "ok",
     fs |-> IF u < 0 THEN "swap" ELSE "ext4",
     mnt |-> None, type |-> type, bootable |-> (num = 1)]

\* a partition a table tool has just made: it holds no file system
NewPartition(num, start, len, type) ==
    [Partition(num, start, len, -1, type) EXCEPT !.fs = ""]

RECURSIVE Layout(_, _, _, _)
\* partitions laid out one after the other from sector `first`
Layout(ls, us, nums, first) ==
    IF ls = <<>> THEN <<>>
    ELSE <<Partition(Head(nums), first, Head(ls), Head(us),
                     IF Head(us) < 0 THEN "8200" ELSE "8300")>>
         \o Layout(Tail(ls), Tail(us), Tail(nums), first + Head(ls))

\* table slots: in on-disk order, or the last slot first on the disk
Numberings(n) ==
    {[k \in 1..n |-> k], [k \in 1..n |-> IF k = 1 THEN n ELSE k - 1]}

\* df never reports more used sectors than the size the code reads
GptUsage(ls) ==
    {us \in [1..Len(ls) -> -1..MaxSectors] : \A k \in 1..Len(ls) : us[k] < ls[k]}

GptDisk(ls, us, nums) ==
    [table |-> "gpt", parts |-> Layout(ls, us, nums, 1),
     size |-> SumSeq(ls) + GptReserved, free |-> 0, uuids |-> 0]

Usage(ls) ==
    {us \in [1..Len(ls) -> -1..MaxSectors] : \A k \in 1..Len(ls) : us[k] <= ls[k]}

\* a volume group: its logical volumes carry names, here numbers
LvmGroup(ls, us, f) ==
    [table |-> "lvm", parts |-> Layout(ls, us, [k \in 1..Len(ls) |-> k], 1),
     size |-> SumSeq(ls) + f, free |-> f, uuids |-> 0]

\* lvm_source and lvm_target when the copier was given no volume groups
NoLvm == [table |-> None, parts |-> <<>>, size |-> 0, free |-> 0, uuids |-> 0]

\* a device that holds no partition
Blank(table, size, align) ==
    [table |-> table, parts |-> <<>>, size |-> size, free |-> size,
     align |-> align, uuids |-> 0]

RECURSIVE MbrLayout(_, _, _, _, _, _)
\* an MBR disk: the partitions f..t are logical partitions (f = 0: none) and
\* lie in an extended partition of type 5 that starts one sector before
\* the first of them; slot is the next primary slot, k the next partition
MbrLayout(ls, us, f, t, k, at) ==
    IF k > Len(ls) THEN <<>>
    ELSE LET slot == at[1]
             first == at[2]
         IN  IF k = f
             THEN <<Partition(slot, first,
                              1 + SumSeq([j \in 1..(t - f + 1) |-> ls[f + j - 1]]),
                              -1, "5"),
                    Partition(5, first + 1, ls[k], us[k], "83")>>
                  \o MbrLayout(ls, us, f, t, k + 1, <<slot + 1, first + 1 + ls[k]>>)
             ELSE IF f < k /\ k <= t
             THEN <<Partition(5 + k - f, first, ls[k], us[k], "83")>>
                  \o MbrLayout(ls, us, f, t, k + 1, <<slot, first + ls[k]>>)
             ELSE <<Partition(slot, first, ls[k], us[k], "83")>>
                  \o MbrLayout(ls, us, f, t, k + 1, <<slot + 1, first + ls[k]>>)

\* where the logical partitions of a disk of n partitions can lie
Extended(n) == {<<0, 0>>} \cup {<<f, t>> \in (1..n) \X (1..n) : f <= t}

MbrDisk(ls, us, ft) ==
    LET parts == MbrLayout(ls, us, ft[1], ft[2], 1, <<1, 1>>)
    IN  [table |-> "msdos", parts |-> parts,
         size |-> parts[Len(parts)].end + 1, free |-> 0, uuids |-> 0]

\* a call of an operation of DeviceCopier with its default arguments:
\* ignore_errors of format_partitions, and what callback is ("None", a
\* "function", or the "False" that is transfer_lvm_partition's default)
CallOf(op) ==
    [op |-> op, caller |-> "None", ignore_errors |-> TRUE, callback |-> "None",
     excluded |-> {}]

InitLocals ==
    /\ uuid_dict = <<>>
    /\ entry = 0
    /\ difference = 0
    /\ idx = 0
    /\ add_args = <<>>
    /\ part_size = <<>>
    /\ partition_listings = <<>>
    /\ move_start_back_by = 0
    /\ current_extended_partition = 0
    /\ result = "running"
    /\ before = <<>>
    /\ queries = 0
    /\ calls = <<>>
    /\ log = <<>>
    /\ mounted = [source |-> {}, target |-> {}]
    /\ source_loop = None
    /\ target_loop = None
    /\ loops = {}
    /\ reported = <<>>

InitGpt ==
    /\ \E ls \in Lens(MaxSectors) \ {<<>>} : \E us \in GptUsage(ls) :
       \E nums \in Numberings(Len(ls)) :
       \E d \in -1..MaxShrink : \E a \in Alignments :
            /\ source = GptDisk(ls, us, nums)
            /\ target = Blank("gpt", source.size - d, a)
    /\ lvm_source = NoLvm
    /\ lvm_target = NoLvm
    /\ pc = "transfer_partition_table"
    /\ call = CallOf("transfer_partition_table")
    /\ InitLocals

InitMsdos ==
    /\ \E ls \in Lens(MaxSectors - 1) \ {<<>>} : \E us \in Usage(ls) :
       \E ft \in Extended(Len(ls)) :
       \E d \in -1..MaxShrink : \E a \in Alignments :
            /\ source = MbrDisk(ls, us, ft)
            /\ target = Blank("msdos", source.size - d, a)
    /\ lvm_source = NoLvm
    /\ lvm_target = NoLvm
    /\ pc = "transfer_partition_table"
    /\ call = CallOf("transfer_partition_table")
    /\ InitLocals

InitLvm ==
    /\ \E ls \in Lens(MaxSectors) \ {<<>>} : \E us \in Usage(ls) :
       \E f \in LvmFree : \E d \in -1..MaxShrink :
            /\ lvm_source = LvmGroup(ls, us, f)
            /\ lvm_target = Blank("lvm", lvm_source.size - d, 1)
    /\ source = Blank("gpt", GptReserved, 1)
    /\ target = Blank("gpt", GptReserved, 1)
    /\ pc = "transfer_lvm_partition"
    /\ \E callback \in {"False", "function"} :
            call = [CallOf("transfer_lvm_partition") EXCEPT !.callback = callback]
    /\ InitLocals

Init == InitGpt \/ InitMsdos \/ InitLvm

\* ------------------------------------------------------------ _transfer_gpt
\* GptPlan with the shrink to the used size rounded down, not up
GptPlanFloor(drive_size, part_used, part_alignment, diff) ==
    LET space == part_alignment * Floor(drive_size - part_used, part_alignment)
        kept == part_alignment * Ceil(drive_size, part_alignment)
    IN  IF space > 0 /\ diff > 0
        THEN IF space > diff
             THEN [part_size |-> part_alignment
                                   * Ceil(drive_size - diff, part_alignment),
                   difference |-> 0]
             ELSE [part_size |-> part_alignment * Floor(part_used, part_alignment),
                   difference |-> diff - space]
        ELSE [part_size |-> kept, difference |-> diff + kept - drive_size]

\* GptPlan with the unshrunk partition kept at its size, not aligned
GptPlanKeep(drive_size, part_used, part_alignment, diff) ==
    LET space == part_alignment * Floor(drive_size - part_used, part_alignment)
    IN  IF space > 0 /\ diff > 0
        THEN IF space > diff
             THEN [part_size |-> part_alignment
                                   * Ceil(drive_size - diff, part_alignment),
                   difference |-> 0]
             ELSE [part_size |-> part_alignment * Ceil(part_used, part_alignment),
                   difference |-> diff - space]
        ELSE [part_size |-> drive_size, difference |-> diff]

\* GptPlan with a partition shrunk by one unit of alignment at most
GptPlanByUnit(drive_size, part_used, part_alignment, diff) ==
    LET space == part_alignment * Floor(drive_size - part_used, part_alignment)
        kept == part_alignment * Ceil(drive_size, part_alignment)
    IN  IF space > 0 /\ diff > 0
        THEN [part_size |-> part_alignment
                                * Ceil(drive_size - part_alignment, part_alignment),
              difference |-> diff - part_alignment]
        ELSE [part_size |-> kept, difference |-> diff + kept - drive_size]

\* one iteration of the loop over reversed(partitions): the size planned
\* for a partition of drive_size sectors of which part_used are used, and
\* the difference left after it
GptPlan(drive_size, part_used, part_alignment, diff) ==
    LET space == part_alignment * Floor(drive_size - part_used, part_alignment)
        kept == part_alignment * Ceil(drive_size, part_alignment)
    IN  IF space > 0 /\ diff > 0
        THEN IF space > diff
             THEN [part_size |-> part_alignment
                                   * Ceil(drive_size - diff, part_alignment),
                   difference |-> 0]
             ELSE [part_size |-> part_alignment * Ceil(part_used, part_alignment),
                   difference |-> diff - space]
        ELSE [part_size |-> kept, difference |-> diff + kept - drive_size]

\* GptPartUsed with a partition whose query raised taken as empty
GptPartUsedEmpty(dev, i) ==
    IF get_partition_used(dev, i).raised THEN 0
    ELSE get_partition_used(dev, i).used

\* part_used as the loop sets it: the query's value, or drive_size when the
\* query raised DeviceError
GptPartUsed(dev, i) ==
    IF get_partition_used(dev, i).raised THEN get_partition_size(dev, i)
    ELSE get_partition_used(dev, i).used

\* GptAddArg with "i:0:0" for the highest partition number
GptAddArgMax(partitions, i, size) ==
    IF i # Max(Range(partitions))
    THEN [part |-> i, rest |-> FALSE, size |-> size]
    ELSE [part |-> i, rest |-> TRUE, size |-> 0]

\* the -n argument of a partition: "i:0:+part_size", or "i:0:0" for the
\* partition that is partitions[-1]
GptAddArg(partitions, i, size) ==
    IF i # partitions[Len(partitions)]
    THEN [part |-> i, rest |-> FALSE, size |-> size]
    ELSE [part |-> i, rest |-> TRUE, size |-> 0]

\* str(n).startswith(str(m)) for numbers below 100
StartsWith(n, m) == n = m \/ (n >= 10 /\ n \div 10 = m)

\* get_partition_code: the code on the first line of the listing, which is
\* in slot order, that starts with the number (gpt) or with the name of the
\* partition (msdos).  With no such line the msdos branch raises ValueError
\* and the gpt branch ends without a return statement: None is returned.
get_partition_code(dev, partition_num) ==
    LET lines == get_partitionsBySlot(dev)
        hits == {k \in 1..Len(lines) : StartsWith(lines[k], partition_num)}
    IN  IF hits # {}
        THEN [raised |-> None,
              value |-> Part(dev, lines[CHOOSE k \in hits :
                                            \A j \in hits : k <= j]).type]
        ELSE IF dev.table = "gpt"
        THEN [raised |-> None, value |-> None]
        ELSE [raised |-> "ValueError", value |-> None]

\* GptTypeArg with the code of a Linux file system for every partition
GptTypeArgLinux(dev, i) == [code |-> "8300"]

\* the -t argument of a partition: "i:code"
GptTypeArg(dev, i) == [code |-> get_partition_code(dev, i).value]

\* the source device after the usage query of partition i
AfterQuery(dev, i) ==
    [dev EXCEPT !.parts = [k \in 1..Len(dev.parts) |->
        IF dev.parts[k].num = i
        THEN [dev.parts[k] EXCEPT !.mnt = get_partition_used(dev, i).mnt]
        ELSE dev.parts[k]]]

\* an entry of the log: a tool was run, for partition part (0: the device),
\* and exited with zero (ok) or not
Ran(tool, part, ok) == [tool |-> tool, part |-> part, ok |-> ok]

\* an exception leaves the operation: its locals are gone
Raise(err) ==
    /\ pc' = "raised"
    /\ result' = err
    /\ difference' = 0
    /\ idx' = 0
    /\ add_args' = <<>>
    /\ part_size' = <<>>
    /\ partition_listings' = <<>>
    /\ move_start_back_by' = 0
    /\ current_extended_partition' = 0

\* the table sgdisk -o builds from the -n and -t arguments: each partition
\* after the one before it, the "i:0:0" partition to the end of the device
RECURSIVE GptTable(_, _, _)
GptTable(args, first, last) ==
    IF args = <<>> THEN <<>>
    ELSE LET a == Head(args)
             len == IF a.rest THEN last - first + 1 ELSE a.size
         IN  <<NewPartition(a.part, first, len, a.code)>>
             \o GptTable(Tail(args), first + len, last)

\* sgdisk -o succeeds only when every partition lies on the device
GptFits(args, dev) ==
    LET t == GptTable(args, 1, dev.size - GptReserved)
    IN  \A k \in 1..Len(t) : t[k].start <= t[k].end /\ t[k].end <= dev.size - GptReserved

\* transfer_partition_table up to the call of the resize engine; for gpt
\* the engine's first statements, which credit the source's empty space
TransferPartitionTable ==
    /\ pc = "transfer_partition_table"
    /\ \E resize \in IF call.caller = None THEN BOOLEAN ELSE {TRUE} :
        IF target.size < source.size /\ ~resize
        THEN /\ Raise("CopyError")
             /\ UNCHANGED <<entry, drive, reported>>
        ELSE /\ entry' = source.size - target.size
             /\ UNCHANGED <<drive, reported>>
             /\ result' = result
             /\ IF source.table = "gpt"
                THEN /\ difference' = (source.size - target.size)
                                        - (get_empty_space(source) - GptReserved)
                     /\ idx' = Len(source.parts)
                     /\ pc' = IF source.parts = <<>> THEN "gpt_clear" ELSE "gpt_loop"
                ELSE /\ difference' = source.size - target.size
                     /\ idx' = 0
                     /\ pc' = "msdos_unmount"
             /\ UNCHANGED <<add_args, part_size, partition_listings,
                            move_start_back_by, current_extended_partition>>
    /\ UNCHANGED <<devices, uuid_dict, history, log>>

\* one iteration of `for i in reversed(partitions)`
GptLoop ==
    /\ pc = "gpt_loop"
    /\ idx >= 1
    /\ LET partitions == get_partitions(source)
           i == partitions[idx]
           plan == GptPlan(get_partition_size(source, i), GptPartUsed(source, i),
                           target.align, difference)
       IN  /\ difference' = plan.difference
           /\ part_size' = <<[part |-> i, size |-> plan.part_size]>> \o part_size
           /\ add_args' = <<GptAddArg(partitions, i, plan.part_size)
                                @@ GptTypeArg(source, i)>> \o add_args
           /\ source' = AfterQuery(source, i)
    /\ idx' = idx - 1
    /\ pc' = IF idx = 1 THEN "gpt_clear" ELSE "gpt_loop"
    /\ UNCHANGED <<target, lvm_source, lvm_target, uuid_dict, entry, drive, reported,
                   partition_listings, move_start_back_by,
                   current_extended_partition, result, history, log>>

\* sgdisk -Z
GptClear ==
    /\ pc = "gpt_clear"
    /\ \E ok \in BOOLEAN :
        /\ log' = Append(log, Ran("sgdisk -Z", 0, ok))
        /\ IF ok
           THEN /\ target' = [target EXCEPT !.parts = <<>>, !.table = "none",
                                            !.uuids = @ + 1]
                /\ pc' = "gpt_copy"
                /\ UNCHANGED <<locals, result>>
           ELSE /\ Raise("DeviceError")
                /\ UNCHANGED target
    /\ UNCHANGED <<source, lvm_source, lvm_target, uuid_dict, entry, drive, reported, history>>

\* sgdisk -o with the -n and -t arguments
GptCopy ==
    /\ pc = "gpt_copy"
    /\ \E ok \in BOOLEAN :
        /\ log' = Append(log, Ran("sgdisk -o", 0, ok /\ GptFits(add_args, target)))
        /\ IF ok /\ GptFits(add_args, target)
           THEN /\ target' = [target EXCEPT !.table = "gpt", !.uuids = @ + 1,
                       !.parts = GptTable(add_args, 1, target.size - GptReserved)]
                /\ pc' = "gpt_guid"
                /\ UNCHANGED <<locals, result>>
           ELSE /\ Raise("DeviceError")
                /\ UNCHANGED target
    /\ UNCHANGED <<source, lvm_source, lvm_target, uuid_dict, entry, drive, reported, history>>

\* what the failure of sgdisk -G raises: its stdout is not piped, final_out
\* is None and str(final_out, "utf-8"), an argument of the DeviceError to
\* be raised, raises TypeError
GuidError == "TypeError"

\* sgdisk -G, and the return of _transfer_gpt
GptGuid ==
    /\ pc = "gpt_guid"
    /\ \E ok \in BOOLEAN :
        /\ log' = Append(log, Ran("sgdisk -G", 0, ok))
        /\ IF ok
           THEN /\ target' = [target EXCEPT !.uuids = @ + 1]
                /\ pc' = "tpt_unmount"
                /\ UNCHANGED <<locals, result>>
           ELSE /\ Raise(GuidError)
                /\ UNCHANGED target
    /\ UNCHANGED <<source, lvm_source, lvm_target, uuid_dict, entry, drive, reported, history>>

NextGpt == GptLoop \/ GptClear \/ GptCopy \/ GptGuid

\* ---------------------------------------------------------- _transfer_msdos
\* the list sorted by "start" and by "part"; the keys are distinct
SortByStart(l) ==
    [k \in 1..Len(l) |->
        CHOOSE e \in Range(l) :
            Cardinality({x \in Range(l) : x.start < e.start}) = k - 1]

SortByPart(l) ==
    [k \in 1..Len(l) |->
        CHOOSE e \in Range(l) :
            Cardinality({x \in Range(l) : x.part < e.part}) = k - 1]

\* the fields of a line of `sfdisk -d`: the bootable flag comes last
SfdiskFields(p) ==
    <<"start", "size", "type">> \o (IF p.bootable THEN <<"bootable">> ELSE <<>>)

\* pairs["bootable"] after the loop over the fields of a line: every
\* key=value field sets it to False and a bare field to True, so the last
\* field decides
ParsedBootable(fields) ==
    fields[Len(fields)] \notin {"start", "size", "type", "Id"}

\* the lines of `sfdisk -d` as the code parses them, one per partition
SfdiskDump(dev) ==
    SortByPart([k \in 1..Len(dev.parts) |->
        [part |-> dev.parts[k].num, start |-> dev.parts[k].start,
         size |-> dev.parts[k].end - dev.parts[k].start + 1,
         type |-> dev.parts[k].type,
         bootable |-> ParsedBootable(SfdiskFields(dev.parts[k]))]])

\* space = math.floor((size - drive_used) * (1 - margin / 100))
MsdosSpace(size, drive_used) == Floor((size - drive_used) * (100 - Margin), 100)

\* MsdosShrink with every partition shrunk by all its space
MsdosShrinkAll(size, drive_used, diff) ==
    LET space == MsdosSpace(size, drive_used)
    IN  IF space > 0 THEN [shrink |-> space, difference |-> diff - space]
        ELSE [shrink |-> 0, difference |-> diff]

\* the shrink of a partition whose usage was read, and the difference after
MsdosShrink(size, drive_used, diff) ==
    LET space == MsdosSpace(size, drive_used)
    IN  IF space > 0 /\ diff > 0
        THEN IF space >= diff
             THEN [shrink |-> diff, difference |-> diff]
             ELSE [shrink |-> space, difference |-> diff - space]
        ELSE [shrink |-> 0, difference |-> diff]

\* UnmountAll with every partition left as it is
UnmountAllNone(dev) == dev

\* every mounted partition of the device unmounted
UnmountAll(dev) ==
    [dev EXCEPT !.parts = [k \in 1..Len(dev.parts) |->
                                [dev.parts[k] EXCEPT !.mnt = None]]]

\* mount_point(i) is not None
IsMounted(dev, i) ==
    i \in Range(get_partitions(dev)) /\ Part(dev, i).mnt # None

\* the partitions of a device that are mounted
MountedOf(dev) == {i \in Range(get_partitions(dev)) : IsMounted(dev, i)}

AnyMounted(dev) == \E p \in Range(dev.parts) : p.mnt # None

\* `for i in self.target.get_partitions()`: unmount what is mounted
MsdosUnmount ==
    /\ pc = "msdos_unmount"
    /\ \E ok \in BOOLEAN :
        IF ok \/ ~AnyMounted(target)
        THEN /\ target' = UnmountAll(target)
             /\ pc' = "msdos_dump"
             /\ UNCHANGED <<locals, result>>
        ELSE /\ Raise("DeviceError")
             /\ UNCHANGED target
    /\ mounted' = [source |-> MountedOf(source), target |-> MountedOf(target)]
    /\ UNCHANGED <<source, lvm_source, lvm_target, uuid_dict, entry, drive,
                   reported, before, queries, calls, call, log>>

\* sfdisk -d, the parse of its lines and the sort by start
MsdosDump ==
    /\ pc = "msdos_dump"
    /\ \E ok \in BOOLEAN :
        IF ok
        THEN /\ partition_listings' = SortByStart(SfdiskDump(source))
             /\ move_start_back_by' = 0
             /\ current_extended_partition' = 0
             /\ idx' = 1
             /\ pc' = "msdos_loop"
             /\ UNCHANGED <<difference, add_args, part_size, result>>
        ELSE Raise("DeviceError")
    /\ UNCHANGED <<devices, uuid_dict, entry, drive, reported, history, log>>

\* ExtendedSize with the extended partition left as it is
ExtendedSizeKept(size, shrink) == size

\* current_extended_partition["size"] -= shrink
ExtendedSize(size, shrink) == size - shrink

\* MovedStart with the start left where it is
MovedStartKept(start, back) == start

\* i["start"] -= move_start_back_by
MovedStart(start, back) == start - back

\* one iteration of `for i in partition_listings`
MsdosLoop ==
    /\ pc = "msdos_loop"
    /\ idx <= Len(partition_listings)
    /\ LET i == partition_listings[idx]
           start == MovedStart(i.start, move_start_back_by)
           cur == IF current_extended_partition # 0 /\ i.part <= 4
                  THEN 0 ELSE current_extended_partition
           q == get_partition_used(source, i.part)
           plan == IF q.raised THEN [shrink |-> 0, difference |-> difference]
                   ELSE MsdosShrink(i.size, q.used, difference)
       IN  IF i.type = "5"
           THEN /\ partition_listings' =
                        [partition_listings EXCEPT ![idx].start = start]
                /\ current_extended_partition' = idx
                /\ UNCHANGED <<difference, move_start_back_by, source>>
           ELSE /\ partition_listings' =
                        [k \in 1..Len(partition_listings) |->
                            IF k = idx
                            THEN [i EXCEPT !.start = start,
                                           !.size = i.size - plan.shrink]
                            ELSE IF k = cur
                            THEN [partition_listings[k] EXCEPT
                                    !.size = ExtendedSize(@, plan.shrink)]
                            ELSE partition_listings[k]]
                /\ current_extended_partition' = cur
                /\ difference' = plan.difference
                /\ move_start_back_by' = move_start_back_by + plan.shrink
                /\ source' = AfterQuery(source, i.part)
    /\ idx' = idx + 1
    /\ pc' = IF idx = Len(partition_listings) THEN "msdos_fdisk" ELSE "msdos_loop"
    /\ UNCHANGED <<target, lvm_source, lvm_target, uuid_dict, entry, drive, reported, add_args,
                   part_size, result, history, log>>

\* fdisk with "o w q": a new, empty table
MsdosFdisk ==
    /\ pc = "msdos_fdisk"
    /\ \E ok \in BOOLEAN :
        /\ log' = Append(log, Ran("fdisk", 0, ok))
        /\ IF ok
           THEN /\ target' = [target EXCEPT !.parts = <<>>, !.table = "msdos",
                                            !.uuids = @ + 1]
                /\ pc' = "msdos_sfdisk"
                /\ UNCHANGED <<locals, result>>
           ELSE /\ Raise("CopyError")
                /\ UNCHANGED target
    /\ UNCHANGED <<source, lvm_source, lvm_target, uuid_dict, entry, drive, reported, history>>

\* the table sfdisk writes from final_str
MsdosTable(listings) ==
    LET l == SortByStart(listings)
    IN  [k \in 1..Len(l) |->
            [NewPartition(l[k].part, l[k].start, l[k].size, l[k].type)
                EXCEPT !.bootable = l[k].bootable]]

\* sfdisk --force with final_str, the listings sorted by part
MsdosSfdisk ==
    /\ pc = "msdos_sfdisk"
    /\ \E ok \in BOOLEAN :
        /\ log' = Append(log, Ran("sfdisk", 0, ok))
        /\ IF ok
           THEN /\ target' = [target EXCEPT !.uuids = @ + 1,
                                 !.parts = MsdosTable(SortByPart(partition_listings))]
                /\ pc' = "tpt_unmount"
                /\ UNCHANGED <<locals, result>>
           ELSE /\ Raise("CopyError")
                /\ UNCHANGED target
    /\ UNCHANGED <<source, lvm_source, lvm_target, uuid_dict, entry, drive, reported, history>>

NextMsdos == MsdosUnmount \/ MsdosDump \/ MsdosLoop \/ MsdosFdisk \/ MsdosSfdisk

\* a value the callback is called with: the float num / den
Fraction(num, den) == [num |-> num, den |-> den]

\* callback(value) for a callback that is a function; one that is None is
\* not called
Called(value) ==
    IF call.callback = "function" THEN Append(reported, value) ELSE reported

\* the lambda of transfer_partition_table: 0.3 + prog * 0.7
progress(prog) == Fraction(3 * prog.den + 7 * prog.num, 10 * prog.den)

\* format_partitions: `complete` when the callback is called for partition
\* i.  It is set to 0.0 in every iteration before part_size / drive_size
\* is added
Complete(dev, i) == Fraction(get_partition_size(dev, i), dev.size)

\* ------------------------------------------- transfer_partition_table, end
\* the loop that unmounts the target's partitions after the transfer
TptUnmount ==
    /\ pc = "tpt_unmount"
    /\ \E ok \in BOOLEAN :
        IF ok \/ ~AnyMounted(target)
        THEN /\ target' = UnmountAll(target)
             /\ reported' = Called(Fraction(3, 10))
             /\ pc' = "partprobe"
             /\ UNCHANGED <<locals, result>>
        ELSE /\ Raise("DeviceError")
             /\ UNCHANGED <<target, reported>>
    /\ UNCHANGED <<source, lvm_source, lvm_target, uuid_dict, entry, drive,
                   history, log>>

\* partprobe; control then reaches format_partitions
\* Partprobe with the exit code of partprobe not read
PartprobeUnchecked ==
    /\ pc = "partprobe"
    /\ \E ok \in BOOLEAN : log' = Append(log, Ran("partprobe", 0, ok))
    /\ pc' = "format_partitions"
    /\ UNCHANGED <<devices, uuid_dict, entry, drive, reported, locals, result, history>>

Partprobe ==
    /\ pc = "partprobe"
    /\ \E ok \in BOOLEAN :
        /\ log' = Append(log, Ran("partprobe", 0, ok))
        /\ IF ok
           THEN /\ pc' = "format_partitions"
                /\ UNCHANGED <<locals, result>>
           ELSE Raise("DeviceError")
    /\ UNCHANGED <<devices, uuid_dict, entry, drive, reported, history>>

\* ------------------------------------------------------------ _transfer_lvm
\* the size planned for a logical volume, and the difference after it
LvmPlan(drive_size, part_used, diff) ==
    LET space == drive_size - part_used
    IN  IF space > 0 /\ diff > 0
        THEN IF space > diff
             THEN [part_size |-> drive_size - diff, difference |-> diff]
             ELSE [part_size |-> part_used, difference |-> diff - space]
        ELSE [part_size |-> drive_size, difference |-> diff]

\* transfer_lvm_partition up to the call of _transfer_lvm
TransferLvmPartition ==
    /\ pc = "transfer_lvm_partition"
    /\ lvm_source # NoLvm
    /\ entry' = lvm_source.size - lvm_target.size
    /\ UNCHANGED <<drive, reported>>
    /\ difference' = lvm_source.size - lvm_target.size
    /\ pc' = "lvm_remove"
    /\ UNCHANGED <<devices, uuid_dict, idx, add_args, part_size,
                   partition_listings, move_start_back_by,
                   current_extended_partition, result, history, log>>

\* the loop that removes the target's logical volumes (a mounted one is
\* passed to lvm_target.unmount, which LVMDeviceManager does not define),
\* then the credit of the source group's free space
LvmRemove ==
    /\ pc = "lvm_remove"
    /\ \E ok \in BOOLEAN :
        IF AnyMounted(lvm_target)
        THEN /\ Raise("AttributeError")
             /\ UNCHANGED lvm_target
        ELSE IF ok \/ lvm_target.parts = <<>>
        THEN /\ lvm_target' = [lvm_target EXCEPT !.parts = <<>>,
                    !.uuids = IF lvm_target.parts = <<>> THEN @ ELSE @ + 1]
             /\ difference' = difference - get_empty_space(lvm_source)
             /\ idx' = 1
             /\ pc' = IF lvm_source.parts = <<>> THEN "format_partitions"
                      ELSE "lvm_loop"
             /\ UNCHANGED <<add_args, part_size, partition_listings,
                            move_start_back_by, current_extended_partition,
                            result>>
        ELSE /\ Raise("DeviceError")
             /\ UNCHANGED lvm_target
    /\ UNCHANGED <<source, target, lvm_source, uuid_dict, entry, drive, reported, history, log>>

\* one iteration of `for i in lvs`: the plan of a volume and its lvcreate
LvmLoop ==
    /\ pc = "lvm_loop"
    /\ idx <= Len(lvm_source.parts)
    /\ LET i == get_partitions(lvm_source)[idx]
           plan == LvmPlan(get_partition_size(lvm_source, i),
                           GptPartUsed(lvm_source, i), difference)
       IN  \E ok \in BOOLEAN :
            IF ok
            THEN /\ difference' = plan.difference
                 /\ part_size' = part_size \o <<[part |-> i, size |-> plan.part_size]>>
                 /\ lvm_target' = [lvm_target EXCEPT !.uuids = @ + 1,
                        !.parts = @ \o <<NewPartition(i, 1, plan.part_size, "lv")>>]
                 /\ lvm_source' = AfterQuery(lvm_source, i)
                 /\ idx' = idx + 1
                 /\ pc' = IF idx = Len(lvm_source.parts)
                          THEN "format_partitions" ELSE "lvm_loop"
                 /\ UNCHANGED <<add_args, partition_listings, move_start_back_by,
                                current_extended_partition, result>>
            ELSE /\ Raise("DeviceError")
                 /\ lvm_source' = AfterQuery(lvm_source, i)
                 /\ UNCHANGED lvm_target
    /\ UNCHANGED <<source, target, uuid_dict, entry, drive, reported, history, log>>

NextLvm == TransferLvmPartition \/ LvmRemove \/ LvmLoop

\* --------------------------------------------------------- format_partitions
\* the device with its partition i replaced by p
WithPart(dev, i, p) ==
    [dev EXCEPT !.parts = [k \in 1..Len(dev.parts) |->
        IF dev.parts[k].num = i THEN p ELSE dev.parts[k]]]

\* mount_partition succeeds for a partition that holds a file system that
\* can be mounted
Mountable(p) == p.q # "nomount" /\ p.fs \notin {"", "swap"}

\* set_partition_file_system with no mount after the formatting
set_partition_file_systemNoMount(dev, i, system_type, okum, okmk) ==
    IF i \notin Range(get_partitions(dev))
    THEN [dev |-> dev, raised |-> TRUE, runs |-> <<Ran("mkfs", i, FALSE)>>]
    ELSE LET p == Part(dev, i)
         IN  IF p.mnt # None /\ ~okum
             THEN [dev |-> dev, raised |-> TRUE,
                   runs |-> <<Ran("umount", i, FALSE)>>]
             ELSE [dev |-> [WithPart(dev, i,
                                [p EXCEPT !.fs = IF okmk THEN system_type ELSE @,
                                          !.mnt = None])
                              EXCEPT !.uuids = IF okmk THEN @ + 1 ELSE @],
                   raised |-> ~okmk, runs |-> <<Ran("mkfs", i, okmk)>>]

\* set_partition_file_system: the device after the call, whether the call
\* raised DeviceError, and the runs of mkfs or mkswap and of the umount or
\* mount that failed.  okum, okmk: the exit of umount and of mkfs.  A
\* partition the device does not hold is not mounted, and mkfs fails for it.
set_partition_file_system(dev, i, system_type, okum, okmk) ==
    IF i \notin Range(get_partitions(dev))
    THEN [dev |-> dev, raised |-> TRUE, runs |-> <<Ran("mkfs", i, FALSE)>>]
    ELSE LET p == Part(dev, i)
             mnt_point == p.mnt
         IN  IF mnt_point # None /\ ~okum
             THEN \* umount raises; the mount in `finally` fails as well, the
                  \* partition being mounted still
                  [dev |-> dev, raised |-> TRUE,
                   runs |-> <<Ran("umount", i, FALSE)>>]
             ELSE LET made == IF okmk
                              THEN [p EXCEPT !.fs = system_type, !.used = 0,
                                      !.q = IF system_type = "swap"
                                            THEN "nomount" ELSE "ok"]
                              ELSE p
                      back == mnt_point # None /\ Mountable(made)
                  IN  [dev |-> [WithPart(dev, i,
                                    [made EXCEPT !.mnt = IF back THEN mnt_point
                                                         ELSE None])
                                  EXCEPT !.uuids = IF okmk THEN @ + 1 ELSE @],
                       raised |-> ~okmk \/ (mnt_point # None /\ ~back),
                       runs |-> <<Ran("mkfs", i, okmk)>>
                                \o IF mnt_point # None /\ ~back
                                   THEN <<Ran("mount", i, FALSE)>> ELSE <<>>]

\* format_partitions and the operations around it work on the volume
\* groups when the caller transfers logical volumes
Lvm == call.op = "transfer_lvm_partition"

\* AfterDeviceError with the DeviceError raised again whatever ignore_errors
AfterDeviceErrorRaised(ignore_errors, bound) == "DeviceError"

\* `except DeviceError as exe` of format_partitions: what leaves the
\* handler.  bound: part_type, which the warning formats, has been assigned
AfterDeviceError(ignore_errors, bound) ==
    IF ~ignore_errors THEN "DeviceError"
    ELSE IF ~bound THEN "UnboundLocalError"
    ELSE None

\* format_partitions up to its loop
FormatPartitions ==
    /\ pc = "format_partitions"
    /\ idx' = 1
    /\ pc' = IF (IF Lvm THEN lvm_source ELSE source).parts = <<>>
             THEN "format_done" ELSE "format_loop"
    /\ UNCHANGED <<devices, uuid_dict, entry, drive, reported, difference, add_args, part_size,
                   partition_listings, move_start_back_by,
                   current_extended_partition, result, history, log>>

\* one iteration of `for i in partitions`.  okfs: blkid exits with 0 or 2;
\* okum, okmk: the exits of umount and mkfs, for the iterations that run them;
\* when it does not, get_partition_file_system raises DeviceError inside
\* the try block, and the handler's message reads part_type, which is not
\* bound in the first iteration.  A callback that is False is called after
\* a partition was formatted.
FormatLoop ==
    /\ pc = "format_loop"
    /\ LET source_manager == IF Lvm THEN lvm_source ELSE source
           target_manager == IF Lvm THEN lvm_target ELSE target
           i == get_partitions(source_manager)[idx]
           part_type == get_partition_file_system(source_manager, i)
           continue == /\ idx' = idx + 1
                       /\ pc' = IF idx = Len(source_manager.parts)
                                THEN "format_done" ELSE "format_loop"
                       /\ UNCHANGED <<difference, add_args, part_size,
                                      partition_listings, move_start_back_by,
                                      current_extended_partition, result>>
           mnt_point == IF i \in Range(get_partitions(target_manager))
                        THEN Part(target_manager, i).mnt ELSE None
       IN  \E okfs \in BOOLEAN :
           \E okum \in IF okfs /\ mnt_point # None THEN BOOLEAN ELSE {TRUE} :
           \E okmk \in IF okfs /\ part_type # None THEN BOOLEAN ELSE {TRUE} :
            LET r == set_partition_file_system(target_manager, i, part_type,
                                               okum, okmk)
            IN  /\ reported' =
                    IF okfs /\ part_type # None /\ ~r.raised
                    THEN Called(IF call.op = "transfer_partition_table"
                                THEN progress(Complete(r.dev, i))
                                ELSE Complete(r.dev, i))
                    ELSE reported
                /\ IF ~okfs
                   THEN /\ UNCHANGED <<target, lvm_target>>
                        /\ log' = Append(log, Ran("blkid", i, FALSE))
                        /\ IF AfterDeviceError(call.ignore_errors, idx > 1) = None
                           THEN continue
                           ELSE Raise(AfterDeviceError(call.ignore_errors, idx > 1))
                   ELSE IF part_type = None
                   THEN /\ UNCHANGED <<target, lvm_target, log>>
                        /\ continue
                   ELSE /\ IF Lvm THEN lvm_target' = r.dev /\ UNCHANGED target
                           ELSE target' = r.dev /\ UNCHANGED lvm_target
                        /\ log' = log \o r.runs
                        /\ IF r.raised
                           THEN IF AfterDeviceError(call.ignore_errors, TRUE) = None
                                THEN continue
                                ELSE Raise(AfterDeviceError(call.ignore_errors, TRUE))
                           ELSE IF call.callback = "False" THEN Raise("TypeError")
                           ELSE continue
    /\ UNCHANGED <<source, lvm_source, uuid_dict, entry, drive, history>>

\* format_partitions returns.  transfer_partition_table then sets uuid_dict
\* to None and returns; transfer_lvm_partition returns
FormatDone ==
    /\ pc = "format_done"
    /\ pc' = IF call.caller = "CopyDrive" THEN "copy_files" ELSE "done"
    /\ result' = "None"
    /\ uuid_dict' = IF call.op = "transfer_partition_table" THEN <<>>
                    ELSE uuid_dict
    /\ reported' = IF call.op = "transfer_partition_table"
                   THEN Called(Fraction(10, 10)) ELSE reported
    /\ UNCHANGED <<devices, entry, drive, locals, history, log>>

NextFormat == FormatPartitions \/ FormatLoop \/ FormatDone

Next ==
    \/ TransferPartitionTable
    \/ NextGpt
    \/ NextMsdos
    \/ TptUnmount
    \/ Partprobe
    \/ NextLvm
    \/ NextFormat

Spec == Init /\ [][Next]_vars

\* ------------------------------------------------------ the resize engines
\* the device whose partitions the running engine plans
PlanDevice == IF lvm_source # NoLvm THEN lvm_source ELSE source

\* the engine that plans
Engine == IF lvm_source # NoLvm THEN "lvm" ELSE source.table

\* the usage query of partition i raises DeviceError
Unread(dev, i) == get_partition_used(dev, i).raised

\* the MBR listings the loop has been through, the extended ones left out
Processed ==
    {k \in 1..Len(partition_listings) :
        /\ partition_listings[k].type # "5"
        /\ (pc = "msdos_loop" => k < idx)}

\* the planned sizes that are below the source size
Shrunk ==
    {k \in 1..Len(part_size) :
        part_size[k].size < get_partition_size(PlanDevice, part_size[k].part)}

\* the GPT plan is complete
GptPlanned == pc \in {"gpt_clear", "gpt_copy", "gpt_guid"}

\* the difference _transfer_gpt starts its loop with
GptDeficit == entry - (get_empty_space(source) - GptReserved)

\* C1: in the GPT, MBR and LVM engines the size planned for a partition
\* whose used sectors can be read is never below those used sectors
ResizeSafety ==
    /\ \A k \in 1..Len(part_size) :
            ~Unread(PlanDevice, part_size[k].part)
                => part_size[k].size
                     >= get_partition_used(PlanDevice, part_size[k].part).used
    /\ \A k \in Processed :
            ~Unread(source, partition_listings[k].part)
                => partition_listings[k].size
                     >= get_partition_used(source, partition_listings[k].part).used

\* a complete GPT plan that shrinks a partition with readable usage
ResizeSafetyWitness ==
    /\ GptPlanned
    /\ \E k \in 1..Len(part_size) :
            /\ ~Unread(source, part_size[k].part)
            /\ part_size[k].size < get_partition_size(source, part_size[k].part)
            /\ get_partition_used(source, part_size[k].part).used > 0

\* the slack of a GPT partition: its aligned unused sectors, none when its
\* usage cannot be read
Slack(i) ==
    target.align * Floor(get_partition_size(source, i) - GptPartUsed(source, i),
                         target.align)

\* the sectors the GPT plan removes: source size - planned size, summed
Removed ==
    SumSeq([k \in 1..Len(part_size) |->
        get_partition_size(source, part_size[k].part) - part_size[k].size])

\* C2: when the slack of the source partitions together covers a positive
\* deficit, the sectors the GPT plan removes account for the whole deficit
DeficitConservation ==
    (/\ GptPlanned
     /\ GptDeficit > 0
     /\ SumSeq([k \in 1..Len(source.parts) |-> Slack(source.parts[k].num)])
            >= GptDeficit)
        => Removed >= GptDeficit

\* C3, as the code has it: every size _transfer_gpt plans is a multiple of
\* the target's alignment, in each of its three branches
GptSizesAligned ==
    Engine = "gpt"
        => \A k \in 1..Len(part_size) : part_size[k].size % target.align = 0

\* a complete GPT plan for a target of alignment 2 that keeps a partition
\* of odd size and shrinks another
GptSizesAlignedWitness ==
    /\ GptPlanned
    /\ target.align = 2
    /\ \E k, j \in 1..Len(part_size) :
            /\ get_partition_size(source, part_size[k].part) % 2 = 1
            /\ part_size[k].size > get_partition_size(source, part_size[k].part)
            /\ part_size[j].size < get_partition_size(source, part_size[j].part)

\* C3 as stated: every size the GPT and the MBR engine plan is a multiple
\* of the target's alignment
AllSizesAligned ==
    /\ GptSizesAligned
    /\ \A k \in Processed : partition_listings[k].size % target.align = 0

\* C4: the partition last on the source disk, and no other, is planned as
\* "rest of the disk"
LastIsRest ==
    GptPlanned
        => \A k \in 1..Len(add_args) :
                add_args[k].rest
                    <=> add_args[k].part = source.parts[Len(source.parts)].num

\* a complete GPT plan of a disk whose last partition does not hold the
\* highest number
LastIsRestWitness ==
    /\ GptPlanned
    /\ Len(add_args) >= 2
    /\ source.parts[Len(source.parts)].num # Max(Range(get_partitions(source)))
    /\ \E k \in 1..Len(add_args) : add_args[k].rest

\* C5: a partition whose usage query raises DeviceError is planned, by the
\* GPT and the MBR engine, at its source size or larger
UnreadIsFull ==
    /\ Engine = "gpt"
            => \A k \in 1..Len(part_size) :
                    Unread(source, part_size[k].part)
                        => part_size[k].size
                             >= get_partition_size(source, part_size[k].part)
    /\ \A k \in Processed :
            Unread(source, partition_listings[k].part)
                => partition_listings[k].size
                     >= get_partition_size(source, partition_listings[k].part)

\* a complete GPT plan with a positive deficit that begins with a partition
\* whose usage cannot be read and shrinks another
UnreadIsFullWitness ==
    /\ GptPlanned
    /\ GptDeficit > 0
    /\ Unread(source, part_size[Len(part_size)].part)
    /\ Shrunk # {}

\* the MBR and the LVM engine plan no partition below its source size
NoShrink ==
    /\ Engine # "gpt" => Shrunk = {}
    /\ \A k \in Processed :
            partition_listings[k].size
                >= get_partition_size(source, partition_listings[k].part)

\* C6 as stated: when the difference is zero or negative on entry, every
\* planned size is at least the source size
NoShrinkWhenFits == entry <= 0 => (NoShrink /\ Shrunk = {})

\* C6, as the code has it: when the difference is zero or negative on
\* entry, the MBR and the LVM engine plan no partition below its source
\* size, and _transfer_gpt plans one below it only after alignment has
\* rounded a partition later on the disk up above its source size
ShrinkOnlyAfterRoundUp ==
    entry <= 0
        => /\ NoShrink
           /\ \A k \in Shrunk : \E j \in (k + 1)..Len(part_size) :
                    part_size[j].size
                        > get_partition_size(source, part_size[j].part)

\* the table has been written for a target that is not smaller
ShrinkOnlyAfterRoundUpWitness ==
    /\ pc = "tpt_unmount"
    /\ entry <= 0
    /\ target.parts # <<>>
    /\ Shrunk # {}

\* --------------------------------------------------------- partitions_valid
MaxCalls == 2       \* calls of partitions_valid in a row

\* what a source partition is like: q is how its usage query goes ("ok";
\* "busy": umount fails after df was read; "nodf": df has no line for it;
\* "nomount": swap space), full whether its sectors are all used, mnt where
\* it is mounted when the check begins
Kinds ==
    {[q |-> "ok", full |-> f, mnt |-> m] : f \in BOOLEAN, m \in {None, "/media"}}
    \cup {[q |-> "busy", full |-> f, mnt |-> None] : f \in BOOLEAN}
    \cup {[q |-> "nodf", full |-> FALSE, mnt |-> None],
          [q |-> "nomount", full |-> FALSE, mnt |-> None]}

RECURSIVE ValidLayout(_, _, _)
\* the partitions of a GPT source disk, numbered in on-disk order
ValidLayout(ls, ks, k) ==
    IF k > Len(ls) THEN <<>>
    ELSE <<[Partition(k, 1 + SumSeq(SubSeq(ls, 1, k - 1)), ls[k],
                      IF ks[k].full THEN ls[k] - 1 ELSE 0, "8300")
                EXCEPT !.q = ks[k].q, !.mnt = ks[k].mnt,
                       !.fs = IF ks[k].q = "nomount" THEN "swap" ELSE "ext4"]>>
         \o ValidLayout(ls, ks, k + 1)

\* how the target's table differs from the source's: not at all; partition
\* p holds no file system; partition p is one sector shorter; the last
\* partition is missing; the last slot of the table is first on the disk
TargetVariants(n) ==
    {[kind |-> "same", p |-> 0], [kind |-> "drop", p |-> 0],
     [kind |-> "renumber", p |-> 0]}
    \cup {[kind |-> c, p |-> p] : c \in {"unformatted", "small"}, p \in 1..n}

\* a target disk that carries a copy of the source's table
TargetDisk(src, v) ==
    LET n == Len(src.parts)
        m == IF v.kind = "drop" THEN n - 1 ELSE n
    IN  [table |-> "gpt", size |-> src.size, free |-> 0, align |-> 1,
         uuids |-> 0,
         parts |-> [k \in 1..m |->
            [src.parts[k] EXCEPT
                !.num = IF v.kind = "renumber"
                        THEN (IF k = 1 THEN n ELSE k - 1) ELSE @,
                !.end = IF v.kind = "small" /\ v.p = k THEN @ - 1 ELSE @,
                !.fs = IF v.kind = "unformatted" /\ v.p = k THEN "" ELSE @,
                !.q = "ok", !.used = 0, !.mnt = None]]]

ValidInit ==
    /\ \E ls \in Lens(MaxSectors) \ {<<>>} : \E ks \in [1..Len(ls) -> Kinds] :
       \E v \in TargetVariants(Len(ls)) :
            /\ source = [table |-> "gpt", parts |-> ValidLayout(ls, ks, 1),
                         size |-> SumSeq(ls) + GptReserved, free |-> 0,
                         uuids |-> 0]
            /\ target = TargetDisk(source, v)
    /\ lvm_source = NoLvm
    /\ lvm_target = NoLvm
    /\ pc = "partitions_valid"
    /\ call = CallOf("partitions_valid")
    /\ InitLocals

\* SameParts with the counts compared, not the lists
SamePartsCount(source_parts, target_parts) ==
    Len(source_parts) = Len(target_parts)

\* not (source_parts != target_parts), on Python lists
SameParts(source_parts, target_parts) == source_parts = target_parts

\* Fits with every partition taken to fit
FitsAlways(used, size) == TRUE

\* not (get_partition_used(i) > get_partition_size(i))
Fits(used, size) == ~(used > size)

\* Swallowed with no DeviceError swallowed
SwallowedNever(text) == FALSE

\* "mount" in str(ex) or "swapspace" in str(ex)
Swallowed(text) ==
    \/ In(<<"m", "o", "u", "n", "t">>, text)
    \/ In(<<"s", "w", "a", "p", "s", "p", "a", "c", "e">>, text)

\* partitions_valid ends: it returns True or raises
ValidReturn(r) ==
    /\ result' = r
    /\ calls' = Append(calls, r)
    /\ pc' = IF r = "True" THEN "returned" ELSE "raised"
    /\ idx' = 0

\* partitions_valid up to its loop: the two partition lists are read (a
\* DeviceError of the target's becomes a CopyError) and compared
PartitionsValid ==
    /\ pc = "partitions_valid"
    /\ before' = [source |-> source, target |-> target, uuid_dict |-> uuid_dict]
    /\ queries' = 0
    /\ \E ok \in BOOLEAN :
        IF ~ok
        THEN ValidReturn("CopyError")
        ELSE IF ~SameParts(get_partitions(source), get_partitions(target))
        THEN ValidReturn("CopyError")
        ELSE IF source.parts = <<>>
        THEN ValidReturn("True")
        ELSE /\ idx' = 1
             /\ pc' = "valid_loop"
             /\ UNCHANGED <<result, calls>>
    /\ UNCHANGED <<devices, uuid_dict, entry, drive, reported, difference, add_args, part_size,
                   partition_listings, move_start_back_by,
                   current_extended_partition, log, call, mounted>>

\* one iteration of `for i in source_parts`
ValidLoop ==
    /\ pc = "valid_loop"
    /\ LET i == get_partitions(source)[idx]
           q == get_partition_used(source, i)
           continue == IF idx = Len(source.parts)
                       THEN ValidReturn("True")
                       ELSE /\ idx' = idx + 1
                            /\ UNCHANGED <<pc, result, calls>>
       IN  IF get_partition_file_system(source, i)
                # get_partition_file_system(target, i)
           THEN /\ ValidReturn("CopyError")
                /\ queries' = queries + 2
                /\ UNCHANGED source
           ELSE /\ source' = AfterQuery(source, i)
                /\ queries' = queries + 3
                /\ IF q.raised
                   THEN IF Swallowed(q.text) THEN continue
                        ELSE ValidReturn("DeviceError")
                   ELSE IF Fits(q.used, get_partition_size(target, i))
                        THEN continue
                        ELSE ValidReturn("CopyError")
    /\ UNCHANGED <<target, lvm_source, lvm_target, uuid_dict, entry, drive, reported, difference,
                   add_args, part_size, partition_listings, move_start_back_by,
                   current_extended_partition, before, log, call, mounted>>

\* the caller calls partitions_valid again after it returned True
ValidAgain ==
    /\ pc = "returned"
    /\ Len(calls) < MaxCalls
    /\ pc' = "partitions_valid"
    /\ result' = "running"
    /\ UNCHANGED <<devices, uuid_dict, entry, drive, reported, locals, history, log>>

ValidNext == PartitionsValid \/ ValidLoop \/ ValidAgain

SpecValid == ValidInit /\ [][ValidNext]_vars

\* a call of partitions_valid has ended
Ended == pc \in {"returned", "raised"} /\ calls # <<>>

\* the partition lists the call read
SourceParts == get_partitions(before.source)

TargetParts == get_partitions(before.target)

\* partition i fails the file-system test
FsDiffer(i) ==
    get_partition_file_system(before.source, i)
        # get_partition_file_system(before.target, i)

\* the used sectors of partition i are read and exceed the target's size
TooBig(i) ==
    /\ ~Unread(before.source, i)
    /\ get_partition_used(before.source, i).used
            > get_partition_size(before.target, i)

Fails(i) == FsDiffer(i) \/ TooBig(i)

\* partition i cannot be mounted for the usage query
CannotMount(i) ==
    Part(before.source, i).q = "nomount" /\ Part(before.source, i).mnt = None

\* df has no line for partition i: a DeviceError that says nothing of mount
NoDfLine(i) == ~FsDiffer(i) /\ Part(before.source, i).q = "nodf"

\* the loop gets to the k-th partition: none before it ended the call
Reached(k) ==
    \A j \in 1..(k - 1) : ~Fails(SourceParts[j]) /\ ~NoDfLine(SourceParts[j])

\* C7: when the source's and the target's lists of partition numbers
\* differ, partitions_valid raises CopyError and has made no file-system or
\* usage query
IdsDifferRaises ==
    (pc \in {"valid_loop", "returned", "raised"} /\ SourceParts # TargetParts)
        => (pc = "raised" /\ result = "CopyError" /\ queries = 0)

\* the check of a source [1, 2, 3] against a target [1, 2] has raised
IdsDifferRaisesWitness ==
    /\ pc = "raised"
    /\ result = "CopyError"
    /\ queries = 0
    /\ SourceParts = <<1, 2, 3>>
    /\ TargetParts = <<1, 2>>

MountFailureSkipped ==
    (Ended /\ queries > 0)
        => \A k \in 1..Len(SourceParts) :
            (Reached(k) /\ ~FsDiffer(SourceParts[k]) /\ CannotMount(SourceParts[k]))
                => /\ result = "DeviceError"
                        => \E j \in 1..Len(SourceParts) : NoDfLine(SourceParts[j])
                   /\ \A m \in (k + 1)..Len(SourceParts) :
                        (Reached(m) /\ Fails(SourceParts[m]))
                            => result = "CopyError"

\* CopyError raised for a partition that does not fit, after a partition
\* that cannot be mounted
MountFailureSkippedWitness ==
    /\ pc = "raised"
    /\ result = "CopyError"
    /\ queries > 0
    /\ \E k, m \in 1..Len(SourceParts) :
            /\ k < m
            /\ CannotMount(SourceParts[k])
            /\ ~FsDiffer(SourceParts[k])
            /\ Reached(m)
            /\ TooBig(SourceParts[m])

\* C10: a call that returns True leaves the mount state of every partition
\* and uuid_dict as they were, and a second call that gets to test the
\* partitions returns True again
ValidIdempotent ==
    /\ (pc = "returned" /\ calls # <<>>)
            => /\ source = before.source
               /\ target = before.target
               /\ uuid_dict = before.uuid_dict
    /\ (Ended /\ Len(calls) >= 2 /\ queries > 0) => calls[2] = "True"

\* ------------------------------------------------ copy_partitions, CopyDrive
MaxCopySectors == 4     \* sectors of the partitions of a disk that is cloned

\* the kinds of source partition a clone is tried with
CopyKinds == {k \in Kinds : k.full => k.q = "ok" /\ k.mnt = None}

\* where partitions of the target are mounted when the operation begins
TargetMounts == {None, "/media/target"}

\* a file system blkid names and no mkfs of the system makes
Unrecognized == "zfs"

\* the partitions of the source of a clone; other: the last partition, an
\* empty one, holds a file system that is not recognized
CopyLayout(ls, ks, other) ==
    LET parts == ValidLayout(ls, ks, 1)
        n == Len(parts)
    IN  IF other /\ ks[n] = [q |-> "ok", full |-> FALSE, mnt |-> None]
        THEN [parts EXCEPT ![n].fs = Unrecognized]
        ELSE parts

\* the two disks of a clone: the target carries a table that is the
\* source's or differs from it, and its first partition may be mounted
CopyDisksOf(sectors) ==
    \E ls \in Lens(sectors) \ {<<>>} : \E ks \in [1..Len(ls) -> CopyKinds] :
    \E v \in TargetVariants(Len(ls)) : \E tm \in TargetMounts :
    \E other \in BOOLEAN :
        /\ source = [table |-> "gpt", parts |-> CopyLayout(ls, ks, other),
                     size |-> SumSeq(ls) + GptReserved, free |-> 0,
                     uuids |-> 0]
        /\ target = LET t == TargetDisk(source, v)
                    IN  IF t.parts = <<>> THEN t
                        ELSE [t EXCEPT !.parts[1].mnt =
                                    IF Mountable(t.parts[1]) THEN tm ELSE None]
        /\ lvm_source = NoLvm
        /\ lvm_target = NoLvm

CopyDisks == CopyDisksOf(MaxCopySectors)

\* CopyDrive with check_if_valid_and_copy set and no volume group, when the
\* DeviceCopier has been built: part_callback is always a function
CopyInit ==
    /\ CopyDisks
    /\ pc = "copy_partitions"
    /\ call = [CallOf("partitions_valid") EXCEPT !.caller = "CopyDrive",
                                                 !.callback = "function"]
    /\ InitLocals

\* a call of format_partitions on a DeviceCopier
FormatInit ==
    /\ CopyDisks
    /\ pc = "format_partitions"
    /\ \E ignore_errors \in BOOLEAN : \E callback \in {"None", "function"} :
            call = [CallOf("format_partitions")
                        EXCEPT !.ignore_errors = ignore_errors,
                               !.callback = callback]
    /\ InitLocals

\* the source partitions blkid prints a UUID for
WithUuid(dev) == {p.num : p \in {q \in Range(dev.parts) : q.fs # ""}}

\* what blkid answers to a query of one tag of one partition: a value, an
\* empty line with exit code 0, a non-zero exit code with no output
\* ("silent"), and a non-zero exit code with a message
BlkidOutcomes == {"value", "empty", "silent", "message"}

\* the answers of blkid for every partition of the source and both tags
BlkidAnswers(dev) ==
    [Range(get_partitions(dev)) -> [UUID : BlkidOutcomes,
                                    PARTUUID : BlkidOutcomes]]

\* the answers of a blkid that fails for no other reason than a partition
\* without a file system, which has no UUID
DeviceAnswers(dev) ==
    [i \in Range(get_partitions(dev)) |->
        [UUID |-> IF i \in WithUuid(dev) THEN "value" ELSE "silent",
         PARTUUID |-> "value"]]

\* the identifier blkid prints for a tag of partition i of a device
IdOf(of, i, tag) == [of |-> of, num |-> i, tag |-> tag]

\* the empty string, and the name source_part_uuid before it is assigned
EmptyId == IdOf("source", 0, "")
Unbound == IdOf("source", 0, "unbound")

\* uuids[key] = value
Put(uuids, key, value) ==
    {e \in uuids : e.key # key} \cup {[key |-> key, value |-> value]}

\* the loop of get_uuid_dict over the partitions nums of the source, blkid
\* answering q for the source: a UUID query that fails silently, or is
\* empty, skips the partition, and one that fails with a message is raised;
\* a PARTUUID query that fails silently skips the rest, and one that fails
\* with a message leaves source_part_uuid as the iteration before left it
RECURSIVE UuidLoop(_, _, _, _, _)
UuidLoop(nums, q, tgt, uuids, source_part_uuid) ==
    IF nums = <<>> THEN [raised |-> None, value |-> uuids]
    ELSE
    LET i == Head(nums)
        rest == Tail(nums)
        with_uuid == Put(uuids, IdOf("source", i, "UUID"),
                         IdOf("target", i, "UUID"))
        part_uuid == CASE q[i].PARTUUID = "value"
                            -> IdOf("source", i, "PARTUUID")
                       [] q[i].PARTUUID = "empty" -> EmptyId
                       [] OTHER -> source_part_uuid
    IN  CASE q[i].UUID = "message"
                -> [raised |-> "DeviceError", value |-> uuids]
          [] q[i].UUID \in {"silent", "empty"}
                -> UuidLoop(rest, q, tgt, uuids, source_part_uuid)
          [] OTHER ->
                IF i \notin WithUuid(tgt)
                THEN [raised |-> "DeviceError", value |-> uuids]
                ELSE IF q[i].PARTUUID = "silent"
                THEN UuidLoop(rest, q, tgt, with_uuid, source_part_uuid)
                ELSE IF part_uuid = Unbound
                THEN [raised |-> "UnboundLocalError", value |-> with_uuid]
                ELSE IF part_uuid = EmptyId
                THEN UuidLoop(rest, q, tgt, with_uuid, part_uuid)
                ELSE UuidLoop(rest, q, tgt,
                              Put(with_uuid, part_uuid,
                                  IdOf("target", i, "PARTUUID")),
                              part_uuid)

\* get_uuid_dict, called on a DeviceCopier no operation is running on, blkid
\* giving one of the answers: the map is built when none is cached, and kept
\* unless an exception is raised; a cached map is returned as it is.  The
\* map is kept with the generations of the UUIDs it was built from.
GetUuidDictOf(answers) ==
    /\ pc \in {"copy_partitions", "done", "raised"}
    /\ ~(pc = "raised" /\ call.op = "partitions_valid" /\ result = "CopyError")
    /\ uuid_dict = <<>>
    /\ \E q \in answers :
        LET r == UuidLoop(get_partitions(source), q, target, {}, Unbound)
        IN  /\ r.raised = None
            /\ uuid_dict' = <<[source |-> source.uuids,
                               target |-> target.uuids,
                               uuids |-> r.value]>>
    /\ UNCHANGED <<devices, pc, entry, drive, reported, locals, result, history, log>>

\* get_uuid_dict where blkid fails for partitions without a file system only
GetUuidDict == GetUuidDictOf({DeviceAnswers(source)})

\* copy_partitions up to the call of partitions_valid
CopyPartitions ==
    /\ pc = "copy_partitions"
    /\ pc' = "partitions_valid"
    /\ UNCHANGED <<devices, uuid_dict, entry, drive, reported, locals, result, history, log>>

\* copy_partitions, `except CopyError`: the table is transferred
CopyPartitionsExcept ==
    /\ pc = "raised"
    /\ call.caller = "CopyDrive"
    /\ call.op = "partitions_valid"
    /\ result = "CopyError"
    /\ pc' = "transfer_partition_table"
    /\ result' = "running"
    /\ call' = [call EXCEPT !.op = "transfer_partition_table"]
    /\ UNCHANGED <<devices, uuid_dict, entry, drive, reported, locals, before, queries, calls,
                   log, mounted>>

\* CopyPartitionsElse with the table transferred all the same
CopyPartitionsElseTransfer ==
    /\ pc = "returned"
    /\ call.caller = "CopyDrive"
    /\ call.op = "partitions_valid"
    /\ pc' = "transfer_partition_table"
    /\ result' = "running"
    /\ call' = [call EXCEPT !.op = "transfer_partition_table"]
    /\ UNCHANGED <<devices, uuid_dict, entry, drive, reported, locals, before, queries, calls,
                   log, mounted>>

\* copy_partitions, `else`: the callback is called and CopyDrive goes on to
\* copy the files
CopyPartitionsElse ==
    /\ pc = "returned"
    /\ call.caller = "CopyDrive"
    /\ call.op = "partitions_valid"
    /\ pc' = "copy_files"
    /\ result' = "running"
    /\ reported' = reported \o <<Fraction(10, 10), Fraction(10, 10)>>
    /\ UNCHANGED <<devices, uuid_dict, entry, drive, locals, history, log>>

\* -------------------------------------------------- copy_files, make_bootable
\* the directories CopyDrive mounts source and target partitions on
MntSource == "/tmp/source"
MntTarget == "/tmp/target"

\* mount_partition: mount fails for a partition that is not there, holds
\* nothing that can be mounted, or is mounted already
mount_partition(dev, i, mount_loc) ==
    IF /\ i \in Range(get_partitions(dev))
       /\ Mountable(Part(dev, i))
       /\ Part(dev, i).mnt = None
    THEN [dev |-> WithPart(dev, i, [Part(dev, i) EXCEPT !.mnt = mount_loc]),
          raised |-> FALSE]
    ELSE [dev |-> dev, raised |-> TRUE]

\* unmount_partition: umount fails for a partition that is not mounted or
\* is busy; ok is the exit of umount otherwise
unmount_partition(dev, i, ok) ==
    IF /\ i \in Range(get_partitions(dev))
       /\ Part(dev, i).mnt # None
       /\ Part(dev, i).q # "busy"
       /\ ok
    THEN [dev |-> WithPart(dev, i, [Part(dev, i) EXCEPT !.mnt = None]),
          raised |-> FALSE]
    ELSE [dev |-> dev, raised |-> TRUE]

Same(dev) == [dev |-> dev, raised |-> FALSE]

\* one iteration of _copy_files for a partition that is not excluded.
\* failed: DeviceError was raised in the try block; final: DeviceError was
\* raised in the finally block.  rsync's exit is not read.
CopyFilesPart(src, tgt, i, okum) ==
    LET ms == IF IsMounted(src, i) THEN Same(src)
              ELSE mount_partition(src, i, MntSource)
        source_mounted == ~IsMounted(src, i) /\ ~ms.raised
        mt == IF ms.raised \/ IsMounted(tgt, i) THEN Same(tgt)
              ELSE mount_partition(tgt, i, MntTarget)
        target_mounted == ~ms.raised /\ ~IsMounted(tgt, i) /\ ~mt.raised
        us == IF source_mounted THEN unmount_partition(ms.dev, i, TRUE)
              ELSE Same(ms.dev)
        ut == IF target_mounted /\ ~us.raised
              THEN unmount_partition(mt.dev, i, okum)
              ELSE Same(mt.dev)
    IN  [source |-> us.dev, target |-> ut.dev,
         failed |-> ms.raised \/ mt.raised,
         final |-> us.raised \/ ut.raised]

\* one iteration of _copy_fstab for a partition that is not excluded.
\* fstab: etc/fstab exists on the source partition; okrw: the rewrite
\* raised no DeviceError.  The finally block unmounts the source partition
\* for target_mounted as well.
CopyFstabPart(src, tgt, i, fstab, okrw) ==
    LET ms == IF IsMounted(src, i) THEN Same(src)
              ELSE mount_partition(src, i, MntSource)
        source_mounted == ~IsMounted(src, i) /\ ~ms.raised
        found == ~ms.raised /\ fstab
        mt == IF found /\ ~IsMounted(tgt, i)
              THEN mount_partition(tgt, i, MntTarget)
              ELSE Same(tgt)
        target_mounted == found /\ ~IsMounted(tgt, i) /\ ~mt.raised
        us == IF source_mounted THEN unmount_partition(ms.dev, i, TRUE)
              ELSE Same(ms.dev)
        ut == IF target_mounted /\ ~us.raised
              THEN unmount_partition(us.dev, i, TRUE)
              ELSE Same(us.dev)
    IN  [source |-> ut.dev, target |-> mt.dev,
         raised |-> (found /\ (mt.raised \/ ~okrw)) \/ us.raised \/ ut.raised]

\* CopyDrive calls copy_files
CopyFiles ==
    /\ pc = "copy_files"
    /\ \E ignore_failures \in BOOLEAN :
       \E excluded_partitions \in {{}, {source.parts[1].num}} :
            call' = [call EXCEPT !.op = "copy_files",
                                 !.ignore_errors = ignore_failures,
                                 !.excluded = excluded_partitions]
    /\ mounted' = [source |-> MountedOf(source), target |-> MountedOf(target)]
    /\ idx' = 1
    /\ pc' = "copy_files_loop"
    /\ result' = "running"
    /\ UNCHANGED <<devices, uuid_dict, entry, drive, reported, difference, add_args, part_size,
                   partition_listings, move_start_back_by,
                   current_extended_partition, before, queries, calls, log>>

\* _copy_files: one iteration of `for i in source_manager.get_partitions()`
CopyFilesLoop ==
    /\ pc = "copy_files_loop"
    /\ LET i == get_partitions(source)[idx]
           continue == /\ idx' = idx + 1
                       /\ pc' = IF idx = Len(source.parts)
                                THEN "make_bootable" ELSE "copy_files_loop"
                       /\ UNCHANGED <<difference, add_args, part_size,
                                      partition_listings, move_start_back_by,
                                      current_extended_partition, result>>
       IN  IF i \in call.excluded
           THEN continue /\ UNCHANGED <<source, target>>
           ELSE \E okum \in BOOLEAN :
                LET r == CopyFilesPart(source, target, i, okum)
                IN  /\ source' = r.source
                    /\ target' = r.target
                    /\ IF r.final \/ (r.failed /\ ~call.ignore_errors)
                       THEN Raise("DeviceError")
                       ELSE continue
    /\ UNCHANGED <<lvm_source, lvm_target, uuid_dict, entry, drive, reported, history, log>>

\* CopyDrive calls make_bootable, which calls _copy_fstab
MakeBootable ==
    /\ pc = "make_bootable"
    /\ call' = [call EXCEPT !.op = "make_bootable"]
    /\ idx' = 1
    /\ pc' = "copy_fstab_loop"
    /\ UNCHANGED <<devices, uuid_dict, entry, drive, reported, difference, add_args, part_size,
                   partition_listings, move_start_back_by,
                   current_extended_partition, result, before, queries, calls,
                   mounted, log>>

\* _copy_fstab: one iteration of `for i in source_manager.get_partitions()`;
\* make_bootable logs a DeviceError of _copy_fstab and goes on
CopyFstabLoop ==
    /\ pc = "copy_fstab_loop"
    /\ LET i == get_partitions(source)[idx]
           continue == /\ idx' = idx + 1
                       /\ pc' = IF idx = Len(source.parts)
                                THEN "install_bootloader" ELSE "copy_fstab_loop"
       IN  IF i \in call.excluded
           THEN continue /\ UNCHANGED <<source, target>>
           ELSE \E fstab \in BOOLEAN : \E okrw \in IF fstab THEN BOOLEAN ELSE {TRUE} :
                LET r == CopyFstabPart(source, target, i, fstab, okrw)
                IN  /\ source' = r.source
                    /\ target' = r.target
                    /\ IF r.raised
                       THEN idx' = idx /\ pc' = "install_bootloader"
                       ELSE continue
    /\ UNCHANGED <<lvm_source, lvm_target, uuid_dict, entry, drive, reported, difference,
                   add_args, part_size, partition_listings, move_start_back_by,
                   current_extended_partition, result, history, log>>

\* make_bootable hands over to the bootloader plugin and returns; a
\* DeviceError of the plugin is logged.  CopyDrive returns "True"
InstallBootloader ==
    /\ pc = "install_bootloader"
    /\ pc' = "done"
    /\ result' = "True"
    /\ idx' = 0
    /\ UNCHANGED <<devices, uuid_dict, entry, drive, reported, difference, add_args, part_size,
                   partition_listings, move_start_back_by,
                   current_extended_partition, history, log>>

NextFiles ==
    CopyFiles \/ CopyFilesLoop \/ MakeBootable \/ CopyFstabLoop
        \/ InstallBootloader

CopyNext ==
    \/ GetUuidDict
    \/ CopyPartitions
    \/ PartitionsValid
    \/ ValidLoop
    \/ CopyPartitionsExcept
    \/ CopyPartitionsElse
    \/ TransferPartitionTable
    \/ NextGpt
    \/ TptUnmount
    \/ Partprobe
    \/ NextFormat
    \/ NextFiles

SpecCopy == (CopyInit \/ FormatInit) /\ [][CopyNext]_vars

\* ------------------------------------------------ claims on the clone (C11-)
\* the tools that write the target's partition table
TableTools == {"sgdisk -Z", "sgdisk -o", "sgdisk -G", "fdisk", "sfdisk"}

\* a tool has rewritten the target's table
Rewritten ==
    \E k \in 1..Len(log) : log[k].ok /\ log[k].tool \in TableTools

\* the table transfer has ended, by a return or by an exception
TransferEnded ==
    /\ call.op = "transfer_partition_table"
    /\ pc \in {"done", "raised", "copy_files"}

\* the cached map was built from UUIDs the target no longer has
Stale == uuid_dict # <<>> /\ uuid_dict[1].target # target.uuids

\* C11: when a table transfer that rewrote the target's table has ended, on
\* whatever exit path, no map built before the rewrite is cached, so that a
\* later get_uuid_dict cannot return one
UuidDictInvalidated == TransferEnded /\ Rewritten => ~Stale

\* the statements of the table transfer: the resize engines, the tools that
\* materialize the table, partprobe and the formatter
TransferPcs ==
    {"transfer_partition_table", "gpt_loop", "gpt_clear", "gpt_copy",
     "gpt_guid", "msdos_unmount", "msdos_dump", "msdos_loop", "msdos_fdisk",
     "msdos_sfdisk", "tpt_unmount", "partprobe", "format_partitions",
     "format_loop", "format_done"}

\* the table of a device and the file systems of its partitions
Contents(dev) ==
    [table |-> dev.table, size |-> dev.size,
     parts |-> [k \in 1..Len(dev.parts) |->
                    [num |-> dev.parts[k].num, start |-> dev.parts[k].start,
                     end |-> dev.parts[k].end, fs |-> dev.parts[k].fs,
                     type |-> dev.parts[k].type]]]

\* C12: in a clone, the table transfer runs only when the validity check
\* raised CopyError; when the check returned True no engine, materializer
\* or formatter runs, no tool writes to the target, and the target's table
\* and file systems are what they were when the check began
ValidSkipsTransfer ==
    call.caller = "CopyDrive" =>
        /\ pc \in TransferPcs => calls = <<"CopyError">>
        /\ calls = <<"True">> =>
                /\ pc \notin TransferPcs
                /\ log = <<>>
                /\ part_size = <<>> /\ add_args = <<>>
                /\ Contents(target) = Contents(before.target)

\* a clone of a disk with partitions whose check returned True is past
\* copy_partitions
ValidSkipsTransferWitness ==
    /\ call.caller = "CopyDrive"
    /\ calls = <<"True">>
    /\ pc = "copy_files"
    /\ target.parts # <<>>

\* the tool was run with this exit
Has(tool, ok) == \E k \in 1..Len(log) : log[k].tool = tool /\ log[k].ok = ok

\* the clone's validity check found the target incompatible
Incompatible == call.caller = "CopyDrive" /\ calls = <<"CopyError">>

\* a partition is being formatted or has been
Formatting ==
    \/ pc \in {"format_partitions", "format_loop", "format_done"}
    \/ \E k \in 1..Len(log) : log[k].tool = "mkfs"

\* files are being copied or have been
Copying ==
    \/ pc \in {"copy_files", "copy_files_loop", "make_bootable",
               "copy_fstab_loop", "install_bootloader"}
    \/ call.op \in {"copy_files", "make_bootable"}

\* a tool that writes the table, or partprobe, failed
WriteFailed ==
    \E k \in 1..Len(log) :
        ~log[k].ok /\ log[k].tool \in TableTools \cup {"partprobe"}

\* the table was written, then partprobe succeeded, then came every mkfs
WrittenThenProbed ==
    \E w, r \in 1..Len(log) :
        /\ w < r
        /\ log[w].tool \in TableTools /\ log[w].ok
        /\ log[r].tool = "partprobe" /\ log[r].ok
        /\ \A k \in 1..Len(log) :
            /\ log[k].tool \in TableTools => log[k].ok /\ k < r
            /\ log[k].tool = "mkfs" => r < k

\* C13: in a clone with an incompatible target, partitions are formatted
\* and files are copied only after the table write and partprobe both
\* succeeded; when either fails the clone ends with the exception and
\* nothing is formatted or copied
FormatAfterProbe ==
    Incompatible =>
        /\ Formatting \/ Copying => WrittenThenProbed
        /\ WriteFailed =>
                /\ pc = "raised"
                /\ result \in {"DeviceError", "TypeError"}
                /\ ~Formatting /\ ~Copying

\* the files of an incompatible target are being copied after a partition
\* was formatted
FormatAfterProbeWitness ==
    /\ Incompatible
    /\ pc = "copy_files_loop"
    /\ Has("mkfs", TRUE)

\* the steps of the GPT materialization, in the order of the code
GptSteps == <<"sgdisk -Z", "sgdisk -o", "sgdisk -G">>

\* the runs of sgdisk, in order
GptRuns == SelectSeq(log, LAMBDA e : e.tool \in Range(GptSteps))

\* C14: the GPT materialization runs sgdisk -Z, sgdisk -o and sgdisk -G in
\* this order; a step runs only when every step before it exited with 0,
\* and a non-zero exit of any step ends the transfer with DeviceError
GptMaterialization ==
    /\ Len(GptRuns) <= Len(GptSteps)
    /\ \A k \in 1..Len(GptRuns) :
        /\ GptRuns[k].tool = GptSteps[k]
        /\ k < Len(GptRuns) => GptRuns[k].ok
        /\ ~GptRuns[k].ok => pc = "raised" /\ result = "DeviceError"

\* the line of partition `part` in the source's dump and in the plan
SourceListing(part) == CHOOSE e \in Range(SfdiskDump(source)) : e.part = part
Listing(part) == CHOOSE e \in Range(partition_listings) : e.part = part

\* the sectors the plan has removed from partition `part`
ShrinkOf(part) == SourceListing(part).size - Listing(part).size

\* the sectors the plan has removed from the partitions of the set S
ShrinkOfAll(S) ==
    LET d == SfdiskDump(source)
    IN  SumSeq([k \in 1..Len(d) |->
                    IF d[k].part \in S THEN ShrinkOf(d[k].part) ELSE 0])

\* the numbers of the extended, the logical and the primary partitions
ExtendedParts == {e.part : e \in {x \in Range(partition_listings) : x.type = "5"}}
LogicalParts == {e.part : e \in {x \in Range(partition_listings) : x.part > 4}}
PrimaryParts ==
    {e.part : e \in {x \in Range(partition_listings) :
                        x.part <= 4 /\ x.type # "5"}}

\* the MBR engine holds a plan
MsdosPlanned == Engine = "msdos" /\ partition_listings # <<>>

\* C15: in the MBR plan the extended partition has lost exactly the sectors
\* its logical partitions have lost: its size is its source size minus the
\* sum of their shrinks, whatever the primary partitions were shrunk by
ExtendedFollowsLogicals ==
    MsdosPlanned =>
        \A e \in ExtendedParts : ShrinkOf(e) = ShrinkOfAll(LogicalParts)

\* the plan is complete; a logical and a primary partition were shrunk
ExtendedFollowsLogicalsWitness ==
    /\ MsdosPlanned
    /\ pc = "msdos_fdisk"
    /\ ExtendedParts # {}
    /\ ShrinkOfAll(LogicalParts) > 0
    /\ ShrinkOfAll(PrimaryParts) > 0

\* the partitions that hold data and lie before partition `part` on the
\* source disk
DataBefore(part) ==
    {e.part : e \in {x \in Range(partition_listings) :
        x.type # "5" /\ SourceListing(x.part).start < SourceListing(part).start}}

\* the sectors between the end of partition a and the start of partition b
Gap(l, a, b) ==
    LET x == CHOOSE e \in Range(l) : e.part = a
        y == CHOOSE e \in Range(l) : e.part = b
    IN  y.start - (x.start + x.size)

\* partition a of the listings lies inside partition b
Inside(l, a, b) ==
    LET x == CHOOSE e \in Range(l) : e.part = a
        y == CHOOSE e \in Range(l) : e.part = b
    IN  y.start <= x.start /\ x.start + x.size <= y.start + y.size

\* the plan of the MBR engine is complete
MsdosComplete == MsdosPlanned /\ pc # "msdos_loop"

\* C16: in the complete MBR plan every partition starts earlier by exactly
\* the sectors removed from the data partitions before it on the disk; the
\* distance from the end of a partition to the start of a later one is the
\* source's less what was removed between them, so that no gap opens and
\* nothing overlaps; and every logical partition lies inside the extended
\* partition
StartsFollowShrinks ==
    MsdosComplete =>
        /\ \A p \in PrimaryParts \cup LogicalParts \cup ExtendedParts :
            Listing(p).start
                = SourceListing(p).start - ShrinkOfAll(DataBefore(p))
        /\ \A a, b \in PrimaryParts \cup LogicalParts :
            SourceListing(a).start < SourceListing(b).start =>
                /\ Gap(partition_listings, a, b)
                    = Gap(SfdiskDump(source), a, b)
                        - ShrinkOfAll(DataBefore(b) \ (DataBefore(a) \cup {a}))
                /\ Gap(partition_listings, a, b) >= 0
        /\ \A l \in LogicalParts : \A e \in ExtendedParts :
            Inside(partition_listings, l, e)

\* the plan is complete; a primary partition was shrunk, and the extended
\* partition and the logical partition that follow it have been moved
StartsFollowShrinksWitness ==
    /\ MsdosComplete
    /\ ShrinkOfAll(PrimaryParts) > 0
    /\ \E e \in ExtendedParts : Listing(e).start < SourceListing(e).start
    /\ \E l \in LogicalParts : Listing(l).start < SourceListing(l).start

\* C17: a usage query leaves every partition mounted where it was and
\* unmounted if it was, whether it returns or raises
MountStateRestored ==
    [][\A k \in 1..Len(source.parts) :
            source'.parts[k].mnt = source.parts[k].mnt]_vars

\* C17, amended: a usage query changes the mount state of a partition only
\* when it mounted the partition itself, at MOUNT_POINT, and the umount it
\* ran afterwards failed; the query then raises DeviceError with umount's
\* output
MountStateRestoredUnlessBusy ==
    [][\A k \in 1..Len(source.parts) :
            source'.parts[k].mnt # source.parts[k].mnt =>
                LET r == get_partition_used(source, source.parts[k].num)
                IN  /\ source.parts[k].mnt = None
                    /\ source'.parts[k].mnt = MOUNT_POINT
                    /\ r.mounted_here
                    /\ r.raised /\ r.text = UmountOutput]_vars

\* the check has queried a partition that was not mounted and can be, and
\* one that was mounted: the first is not mounted, the second still is
MountStateRestoredWitness ==
    /\ Ended /\ result = "True"
    /\ Len(source.parts) >= 2
    /\ Reached(2)
    /\ source.parts[1].q = "ok" /\ before.source.parts[1].mnt = None
    /\ source.parts[1].mnt = None
    /\ before.source.parts[2].mnt # None
    /\ source.parts[2].mnt = before.source.parts[2].mnt

FilesStage == call.caller = "CopyDrive" /\ call.op \in {"copy_files", "make_bootable"}

\* C19: between the partitions of the file copy and of the fstab rewrite,
\* and when they have ended in whatever way, the partitions that are
\* mounted are those that were mounted when copy_files was called: what the
\* operation mounted is unmounted again, what was mounted is left mounted
MountsScoped ==
    FilesStage =>
        /\ MountedOf(source) = mounted.source
        /\ MountedOf(target) = mounted.target

\* format_partitions was called by itself
FormatCalled == call.op = "format_partitions"

\* an entry of the log that is a failure of set_partition_file_system
FormatFailure(e) == ~e.ok /\ e.tool \in {"umount", "mkfs", "mount"}

\* the source partitions format_partitions has dealt with
Dealt ==
    IF pc \in {"format_done", "done"} THEN Range(get_partitions(source))
    ELSE IF pc = "format_loop"
    THEN {get_partitions(source)[k] : k \in 1..(idx - 1)}
    ELSE {}

LoopDevices == <<"/dev/loop0", "/dev/loop1", "/dev/loop2">>

\* losetup -f: the first loop device that holds no image
FreeLoop(used) ==
    LoopDevices[CHOOSE k \in 1..Len(LoopDevices) :
                    /\ LoopDevices[k] \notin used
                    /\ \A j \in 1..(k - 1) : LoopDevices[j] \in used]

\* mount_loop_device: DeviceError when losetup -f or losetup fails, and no
\* device holds the image then; the exit of partprobe is not read
mount_loop_device(used, free_ok, mount_ok) ==
    IF free_ok /\ mount_ok
    THEN [loops |-> used \cup {FreeLoop(used)}, name |-> FreeLoop(used),
          raised |-> FALSE]
    ELSE [loops |-> used, name |-> None, raised |-> TRUE]

\* delete_loop: losetup -d frees a loop device none of whose partitions is
\* mounted; a device in use stays (it is freed when its last mount ends),
\* and the exit of losetup is not read
delete_loop(used, loop_name, dev) ==
    IF MountedOf(dev) = {} THEN used \ {loop_name} ELSE used

MaxDriveSectors == 3    \* sectors of the partitions of a disk or an image

\* CopyDrive is called with check_if_valid_and_copy set and no volume group
DriveInit ==
    /\ CopyDisksOf(MaxDriveSectors)
    /\ pc = "CopyDrive"
    /\ call = [CallOf("CopyDrive") EXCEPT !.caller = "CopyDrive",
                                          !.callback = "function"]
    /\ InitLocals

\* CopyDrive up to the call of copy_partitions: an image is put on a loop
\* device, whose partitions are not mounted then
CopyDrive ==
    /\ pc = "CopyDrive"
    /\ \E source_img \in {b \in BOOLEAN : b => MountedOf(source) = {}} :
       \E target_img \in {b \in BOOLEAN : b => MountedOf(target) = {}} :
       \E free_ok, mount_ok \in BOOLEAN :
        LET s == IF source_img THEN mount_loop_device(loops, TRUE, mount_ok)
                 ELSE [loops |-> loops, name |-> None, raised |-> FALSE]
            t == IF ~s.raised /\ target_img
                 THEN mount_loop_device(s.loops, free_ok, TRUE)
                 ELSE [loops |-> s.loops, name |-> None, raised |-> FALSE]
        IN  /\ source_loop' = s.name
            /\ target_loop' = t.name
            /\ loops' = t.loops
            /\ IF s.raised \/ t.raised
               THEN Raise("DeviceError") /\ UNCHANGED call
               ELSE /\ pc' = "copy_partitions"
                    /\ call' = [call EXCEPT !.op = "partitions_valid"]
                    /\ UNCHANGED <<locals, result>>
    /\ UNCHANGED <<devices, uuid_dict, entry, before, queries, calls, mounted,
                   log, reported>>

\* CopyDrive has returned or an error leaves it
DriveEnds ==
    /\ call.caller = "CopyDrive"
    /\ pc \in {"done", "raised"}
    /\ ~(pc = "raised" /\ call.op = "partitions_valid" /\ result = "CopyError")

\* CopyDrive, `finally`
CopyDriveFinally ==
    /\ DriveEnds
    /\ pc' = "ended"
    /\ loops' =
        LET used == IF source_loop # None
                    THEN delete_loop(loops, source_loop, source) ELSE loops
        IN  IF target_loop # None
            THEN delete_loop(used, target_loop, target) ELSE used
    /\ UNCHANGED <<devices, uuid_dict, entry, locals, result, history, log,
                   source_loop, target_loop, reported>>

DriveNext ==
    \/ CopyDrive
    \/ CopyPartitions
    \/ PartitionsValid
    \/ ValidLoop
    \/ CopyPartitionsExcept
    \/ CopyPartitionsElse
    \/ TransferPartitionTable
    \/ NextGpt
    \/ TptUnmount
    \/ Partprobe
    \/ NextFormat
    \/ NextFiles
    \/ CopyDriveFinally

SpecDrive == DriveInit /\ [][DriveNext]_vars

\* C21: when CopyDrive has ended, with "True", with the bootloader's error or
\* with an error that leaves it, no loop device it put an image on holds
\* that image any more
LoopsDetached ==
    pc = "ended" => /\ source_loop # None => source_loop \notin loops
                    /\ target_loop # None => target_loop \notin loops

\* ------------------------------------------------- device inspector (C22-)
\* every partition of get_partitions starts before the next one
InDiskOrder(dev) ==
    LET nums == get_partitions(dev)
    IN  \A k \in 1..(Len(nums) - 1) :
            Part(dev, nums[k]).start < Part(dev, nums[k + 1]).start

\* C22: get_partitions lists the partitions of a disk by their start
\* sectors, whatever slots of the table they take
PartitionsInDiskOrder ==
    \A dev \in {source, target} :
        dev.table \in {"gpt", "msdos"} => InDiskOrder(dev)

\* a table whose slot 3 starts before slot 1 has been read by
\* _transfer_gpt, whose loop has gone through [3, 1, 2] backward
PartitionsInDiskOrderWitness ==
    /\ pc = "gpt_clear"
    /\ get_partitions(source) = <<3, 1, 2>>
    /\ Part(source, 3).start < Part(source, 1).start
    /\ Part(source, 1).start < Part(source, 2).start
    /\ [k \in 1..Len(part_size) |-> part_size[k].part] = <<3, 1, 2>>

\* the end sector of the partition that is last on the disk
LastEnd(dev) == Max({p.end : p \in Range(dev.parts)})

\* C23: get_empty_space is the number of sectors from the end of the
\* partition that is last on the disk to the end of the drive, for gpt and
\* for msdos tables, whatever the order of the table's slots
EmptySpaceAfterLast ==
    \A dev \in {source, target} :
        (dev.table \in {"gpt", "msdos"} /\ dev.parts # <<>>)
            => get_empty_space(dev) = dev.size - LastEnd(dev)

\* the partition numbers get_partition_code is asked for
PartitionNums == 1..(MaxSectors + 1)

\* C24: asked for a partition that is not in the table, get_partition_code
\* raises ValueError, for gpt and for msdos tables, and returns no value
MissingCodeRaises ==
    \A dev \in {source, target} : \A n \in PartitionNums :
        (dev.table \in {"gpt", "msdos"} /\ n \notin Range(get_partitions(dev)))
            => /\ get_partition_code(dev, n).raised = "ValueError"
               /\ get_partition_code(dev, n).value = None

\* --------------------------------------- msdos transfer to a disk in use
MaxMbrSectors == 4      \* sectors of the partitions of each disk

\* a target that holds an msdos table, its partitions tl, those of ms
\* mounted
UsedTarget(tl, ms, size, align) ==
    LET old == MbrLayout(tl, [k \in 1..Len(tl) |-> 0], 0, 0, 1, <<1, 1>>)
    IN  [table |-> "msdos",
         parts |-> [k \in 1..Len(old) |->
                        [old[k] EXCEPT !.mnt = IF k \in ms THEN "/media/target"
                                                ELSE None]],
         size |-> size, free |-> 0, align |-> align, uuids |-> 0]

\* transfer_partition_table of an msdos source to a target in use, called
\* with a callback
InitMsdosUsed ==
    /\ \E ls \in Lens(MaxMbrSectors) \ {<<>>} : \E us \in Usage(ls) :
       \E ft \in Extended(Len(ls)) :
       \E d \in -1..MaxShrink : \E a \in Alignments :
       \E tl \in Lens(MaxMbrSectors) \ {<<>>} : \E ms \in SUBSET (1..Len(tl)) :
            /\ source = MbrDisk(ls, us, ft)
            /\ SumSeq(tl) + 1 <= source.size - d
            /\ target = UsedTarget(tl, ms, source.size - d, a)
    /\ lvm_source = NoLvm
    /\ lvm_target = NoLvm
    /\ pc = "transfer_partition_table"
    /\ call = [CallOf("transfer_partition_table") EXCEPT !.callback = "function"]
    /\ InitLocals

NextMsdosUsed ==
    \/ TransferPartitionTable
    \/ NextMsdos
    \/ TptUnmount
    \/ Partprobe
    \/ NextFormat

SpecMsdos == InitMsdosUsed /\ [][NextMsdosUsed]_vars

\* fdisk or sfdisk is run on the target in this step
TableWritten ==
    /\ Len(log') = Len(log) + 1
    /\ log'[Len(log')].tool \in {"fdisk", "sfdisk"}

\* C25: whenever fdisk or sfdisk is run on the target in the transfer of an
\* msdos table, no partition of the target is mounted
UnmountedBeforeWrite ==
    [][TableWritten => ~AnyMounted(target)]_vars

\* fdisk is about to be run on a target two partitions of which were
\* mounted when the transfer began: none is mounted
UnmountedBeforeWriteWitness ==
    /\ pc = "msdos_fdisk"
    /\ source.table = "msdos"
    /\ mounted.target = {1, 2}
    /\ Len(target.parts) = 2
    /\ ~AnyMounted(target)

\* C26: in the MBR plan the sectors removed from the data partitions (the
\* extended partition only mirrors its logical partitions) never exceed
\* the positive difference the engine was called with
MsdosRemovedBounded ==
    MsdosPlanned =>
        ShrinkOfAll(PrimaryParts \cup LogicalParts) <= Max({entry, 0})

\* --------------------------------------------- the plan of _transfer_gpt
MaxPlanSectors == 8     \* sectors of the partitions of the source

\* transfer_partition_table of a gpt source to a blank target
InitGptPlan ==
    /\ \E ls \in Lens(MaxPlanSectors) \ {<<>>} : \E us \in GptUsage(ls) :
       \E nums \in Numberings(Len(ls)) :
       \E d \in -1..MaxShrink : \E a \in Alignments :
            /\ source = GptDisk(ls, us, nums)
            /\ target = Blank("gpt", source.size - d, a)
    /\ lvm_source = NoLvm
    /\ lvm_target = NoLvm
    /\ pc = "transfer_partition_table"
    /\ call = CallOf("transfer_partition_table")
    /\ InitLocals

\* transfer_partition_table up to the end of the loop of _transfer_gpt
NextGptPlan == TransferPartitionTable \/ GptLoop

SpecGptPlan == InitGptPlan /\ [][NextGptPlan]_vars

\* the least size _transfer_gpt plans for partition i: its used sectors
\* rounded up to the alignment
GptMinimum(i) == target.align * Ceil(GptPartUsed(source, i), target.align)

\* the k-th planned partition is planned above its source size
RoundedUp(k) ==
    part_size[k].size > get_partition_size(source, part_size[k].part)

\* C27 as stated: _transfer_gpt shrinks from the last partition backward: a
\* partition is planned below its source size only if every partition
\* after it on the disk that has slack is planned at its minimum
ShrinksBackward ==
    Engine = "gpt" =>
        \A k \in Shrunk : \A j \in (k + 1)..Len(part_size) :
            Slack(part_size[j].part) > 0
                => part_size[j].size = GptMinimum(part_size[j].part)

\* C27, as the code has it: a partition is planned below its source size
\* only if every partition after it on the disk that has slack is planned
\* at its minimum, or alignment has rounded that partition or one between
\* the two up above its source size
ShrinksBackwardOrRoundUp ==
    Engine = "gpt" =>
        \A k \in Shrunk : \A j \in (k + 1)..Len(part_size) :
            Slack(part_size[j].part) > 0
                => \/ part_size[j].size = GptMinimum(part_size[j].part)
                   \/ \E m \in (k + 1)..j : RoundedUp(m)

\* the plan is complete: a partition is planned below its source size and
\* a partition after it, which had slack, at its minimum, below its source
\* size as well
ShrinksBackwardWitness ==
    /\ GptPlanned
    /\ GptDeficit > 0
    /\ \E k \in Shrunk : \E j \in (k + 1)..Len(part_size) :
            /\ Slack(part_size[j].part) > 0
            /\ j \in Shrunk
            /\ part_size[j].size = GptMinimum(part_size[j].part)

\* the partition numbers of the MBR plan in the order of their starts
MsdosPlanOrder ==
    LET l == SortByStart(partition_listings)
    IN  [k \in 1..Len(l) |-> l[k].part]

\* C28: the complete plan has one entry for every source partition, with
\* the source's partition numbers in the source's on-disk order; a GPT entry
\* carries the type code and an MBR entry the type and the bootable flag of
\* the source partition of its number
PlanKeepsIdentity ==
    /\ GptPlanned
        => /\ [k \in 1..Len(add_args) |-> add_args[k].part] = get_partitions(source)
           /\ \A k \in 1..Len(add_args) :
                add_args[k].code = Part(source, add_args[k].part).type
    /\ (MsdosPlanned /\ pc = "msdos_fdisk")
        => /\ MsdosPlanOrder = get_partitions(source)
           /\ \A k \in 1..Len(partition_listings) :
                LET e == partition_listings[k]
                IN  /\ e.type = Part(source, e.part).type
                    /\ e.bootable = Part(source, e.part).bootable

\* a complete GPT plan for a source whose slot 3 is first on the disk and
\* that holds swap space and a Linux file system
PlanKeepsIdentityWitness ==
    /\ GptPlanned
    /\ get_partitions(source) = <<3, 1, 2>>
    /\ Len(add_args) = 3
    /\ {"8200", "8300"} \subseteq {add_args[k].code : k \in 1..Len(add_args)}

\* ----------------------------------------------- partition callback (C29)
\* the fraction a is at most the fraction b
AtMost(a, b) == a.num * b.den <= b.num * a.den

\* transfer_partition_table, called with a callback, has returned
TransferReturned ==
    /\ call.op = "transfer_partition_table"
    /\ call.callback = "function"
    /\ pc \in {"copy_files", "done"}

\* C29: the values the callback is called with in a run of
\* transfer_partition_table lie in [0, 1] and never decrease from one call
\* to the next, and the last one, when the run has returned, is 1.0
ProgressMonotone ==
    call.op = "transfer_partition_table"
        => /\ \A k \in 1..Len(reported) :
                /\ AtMost(Fraction(0, 1), reported[k])
                /\ AtMost(reported[k], Fraction(1, 1))
           /\ \A k \in 1..(Len(reported) - 1) :
                AtMost(reported[k], reported[k + 1])
           /\ TransferReturned
                => /\ reported # <<>>
                   /\ reported[Len(reported)] = Fraction(10, 10)

\* ------------------------------------------------- the UUID map (C30)
MaxUuidSectors == 4     \* sectors of the partitions of a disk whose UUIDs are mapped

\* a DeviceCopier has been built on a source and a target
UuidInit ==
    /\ CopyDisksOf(MaxUuidSectors)
    /\ pc = "copy_partitions"
    /\ call = [CallOf("partitions_valid") EXCEPT !.caller = "CopyDrive",
                                                 !.callback = "function"]
    /\ InitLocals

\* get_uuid_dict, whatever blkid answers for the partitions of the source
GetUuidDictAny == GetUuidDictOf(BlkidAnswers(source))

UuidNext == GetUuidDictAny

SpecUuid == UuidInit /\ [][UuidNext]_vars

\* C30: every key of the map built by get_uuid_dict that is an identifier of
\* a source partition maps to the identifier, of the same tag, of the target
\* partition of the same number, also when a query of blkid has failed or
\* returned nothing
UuidDictPairs ==
    uuid_dict # <<>>
        => \A e \in uuid_dict[1].uuids :
                /\ e.value.of = "target"
                /\ e.value.num = e.key.num
                /\ e.value.tag = e.key.tag

====
